---- MODULE Spec2Model ----
(***************************************************************************)
(* A model of the MaxScale core: the readconnroute connection router       *)
(* (server/modules/routing/readconnroute/readconnroute.cc), the monitor    *)
(* worker and its admin interface (server/core/monitor.cc).                *)
(*                                                                         *)
(* Status words are modelled as sets of bit names: `a & b` is the          *)
(* intersection, `a | b` the union, `a & ~b` the difference and a non-zero *)
(* word is a non-empty set.                                                *)
(***************************************************************************)
EXTENDS Integers, Sequences, FiniteSets, TLC

(***************************************************************************)
(* Bounds of the model.                                                    *)
(***************************************************************************)
\* Session slots of the router (concurrently open client sessions).
MaxSessions == 2
\* Cap on the lifetime session counter of a server (stats.n_connections).
MaxLifetime == 2
\* Cap on the monitor's tick counter m_ticks.
MaxTicks == 2
\* Cap on the number of times the process or the machine stops.
MaxCrashes == 1
\* The highest sequence number of a GTID event the source sends.
MaxSeq == 2
\* Cap on the row events queued in one table.
MaxQueue == 2
\* The highest age of a journal file at a monitor start.
MaxAge == 2

(***************************************************************************)
(* Servers, in the order of the service's dbref list / the monitor's       *)
(* m_servers vector.                                                       *)
(***************************************************************************)
ServerList == <<"db1", "db2">>
Servers == {ServerList[i] : i \in DOMAIN ServerList}
NoServer == "NULL"

(***************************************************************************)
(* Server status bits.                                                     *)
(***************************************************************************)
SERVER_RUNNING == "RUNNING"
SERVER_MAINT == "MAINT"
SERVER_AUTH_ERROR == "AUTH_ERROR"
SERVER_MASTER == "MASTER"
SERVER_SLAVE == "SLAVE"
SERVER_JOINED == "JOINED"
SERVER_NDB == "NDB"
SERVER_WAS_MASTER == "WAS_MASTER"
SERVER_BEING_DRAINED == "BEING_DRAINED"
SERVER_DISK_SPACE_EXHAUSTED == "DISK_SPACE_EXHAUSTED"

AllBits ==
    {SERVER_RUNNING, SERVER_MAINT, SERVER_AUTH_ERROR, SERVER_MASTER, SERVER_SLAVE,
     SERVER_JOINED, SERVER_NDB, SERVER_WAS_MASTER, SERVER_BEING_DRAINED,
     SERVER_DISK_SPACE_EXHAUSTED}

\* monitor.cc:146
server_type_bits == {SERVER_MASTER, SERVER_SLAVE, SERVER_JOINED, SERVER_NDB}

\* monitor.cc:149
all_server_bits ==
    {SERVER_RUNNING, SERVER_MAINT, SERVER_MASTER, SERVER_SLAVE, SERVER_JOINED, SERVER_NDB}

VARIABLES
    \* ---- backend registry (SERVER / SERVER_REF) ----
    status,             \* server->status, the published role flags
    weight,             \* ref->weight
    active,             \* ref->active
    connections,        \* ref->connections
    n_connections,      \* server->stats.n_connections (lifetime sessions)
    \* ---- readconnroute ----
    inst,               \* ROUTER_INSTANCE: bitmask and bitvalue
    sess,               \* the open ROUTER_CLIENT_SES objects, by session slot
    ret,                \* outcome of the latest router entry point call
    \* ---- monitor ----
    mon_state,          \* Monitor::state()
    mpc,                \* position of the monitor worker in run_one_tick
    mi,                 \* index of the worker's loop over m_servers
    pending_status,     \* MXS_MONITORED_SERVER::pending_status
    mon_prev_status,    \* MXS_MONITORED_SERVER::mon_prev_status
    mon_err_count,      \* MXS_MONITORED_SERVER::mon_err_count
    status_request,     \* MXS_MONITORED_SERVER::status_request
    check_status_flag,  \* Monitor::check_status_flag
    m_ticks,            \* Monitor::m_ticks
    last_event,         \* server->last_event
    mon_log,            \* what the current tick has logged / dispatched
    \* ---- admin thread ----
    admin,              \* the admin call in progress
    \* ---- monitor journal ----
    m_master,           \* MonitorWorker::m_master
    m_journal_hash,     \* Monitor::m_journal_hash
    journal_file,       \* the file named monitor.dat
    journal_synced,     \* whether the data of monitor.dat has reached the disk
    tmp_file,           \* the latest file named monitor.datXXXXXX
    jstore,             \* position and buffer of store_server_journal
    crashes,            \* how often the process or the machine has stopped
    \* ---- event hook ----
    script,             \* the hook subprocess the monitor worker has launched
    \* ---- replicator ----
    m_running,          \* Replicator::Imp::m_running
    m_sql,              \* whether Replicator::Imp::m_sql holds a connection
    m_gtid,             \* Replicator::Imp::m_gtid, the committed cursor
    m_current_gtid,     \* Replicator::Imp::m_current_gtid, the in-flight id
    m_tables,           \* Replicator::Imp::m_tables, by table id
    repl_thread,        \* the thread m_thr running process_events
    repl_log,           \* what the replication thread did last
    \* ---- monitor start and stop ----
    m_checked,          \* MonitorWorker::m_checked
    m_lock,             \* Monitor::m_lock: the call that holds it
    m_shutdown,         \* whether Worker::shutdown has been called on the worker
    con,                \* the servers whose MXS_MONITORED_SERVER::con is not NULL
    start_log,          \* what the latest monitor_start / monitor_stop call did
    \* ---- monitor settings and what the servers report ----
    disk_space_limits,  \* m_settings.disk_space_limits in iteration order
    disk_info,          \* the result of disk::get_info_by_path, by path
    m_servers,          \* Monitor::m_servers, the servers the monitor walks
    \* ---- admin calls on the monitor list ----
    m_all_monitors_lock, \* ThisUnit::m_all_monitors_lock: the thread that holds it
    calls,              \* the admin call each thread is in, and its position
    \* ---- newSession step by step ----
    ns                  \* the locals of a newSession call and the root masters
                        \* there have been since its get_root_master

vars ==
    <<status, weight, active, connections, n_connections, inst, sess, ret,
      mon_state, mpc, mi, pending_status, mon_prev_status, mon_err_count,
      status_request, check_status_flag, m_ticks, last_event, mon_log, admin,
      m_master, m_journal_hash, journal_file, journal_synced, tmp_file, jstore, crashes,
      script, m_running, m_sql, m_gtid, m_current_gtid, m_tables, repl_thread, repl_log,
      m_checked, m_lock, m_shutdown, con, start_log, disk_space_limits, disk_info, m_servers,
      m_all_monitors_lock, calls, ns>>

registry_vars == <<status, weight, active, connections, n_connections>>
router_vars == <<inst, sess, ret>>
worker_vars ==
    <<mpc, mi, pending_status, mon_prev_status, mon_err_count, m_ticks, last_event, mon_log>>
request_vars == <<status_request, check_status_flag>>
repl_vars == <<m_running, m_sql, m_gtid, m_current_gtid, m_tables, repl_thread, repl_log>>
journal_vars ==
    <<m_master, m_journal_hash, journal_file, journal_synced, tmp_file, jstore, crashes>>
start_vars == <<m_checked, m_lock, m_shutdown, con, start_log>>
cfg_vars == <<disk_space_limits, disk_info, m_servers, m_all_monitors_lock, calls, ns>>

\* No newSession call is between its steps.
NoNewSession ==
    [pc |-> "idle", i |-> 1, master_host |-> "NULL", candidate |-> "NULL", roots |-> {}]

\* The threads that make admin calls: the main worker, which alone starts and
\* stops monitors (MonitorWorker::start and do_stop assert it), and a thread
\* that reads.
Threads == {"main", "rest"}

\* A thread that is in no admin call.
NoCall == [op |-> "none", pc |-> 1, server |-> "none", old_state |-> "STOPPED",
           found |-> FALSE]

\* The servers of m_servers.
MonitoredServers == {m_servers[i] : i \in DOMAIN m_servers}

(***************************************************************************)
(* Status predicates of a server.                                          *)
(***************************************************************************)
server_is_running(st) == SERVER_RUNNING \in st

server_is_down(st) == SERVER_RUNNING \notin st

server_is_in_maint(st) == SERVER_MAINT \in st

\* "The server must be running, not in maintenance and have the master bit set."
server_is_master(st) ==
    /\ SERVER_RUNNING \in st
    /\ SERVER_MASTER \in st
    /\ SERVER_MAINT \notin st

(***************************************************************************)
(* readconnroute: configureInstance                                        *)
(***************************************************************************)
RouterOptions == {"master", "slave", "running", "synced", "ndb"}

OptionMask(opt) ==
    CASE opt = "master" -> {SERVER_MASTER, SERVER_SLAVE}
      [] opt = "slave" -> {SERVER_MASTER, SERVER_SLAVE}
      [] opt = "running" -> {SERVER_RUNNING}
      [] opt = "synced" -> {SERVER_JOINED}
      [] opt = "ndb" -> {SERVER_NDB}

OptionValue(opt) ==
    CASE opt = "master" -> {SERVER_MASTER}
      [] opt = "slave" -> {SERVER_SLAVE}
      [] opt = "running" -> {SERVER_RUNNING}
      [] opt = "synced" -> {SERVER_JOINED}
      [] opt = "ndb" -> {SERVER_NDB}

\* The (bitmask, bitvalue) pair stored for a set of router_options.
configureInstance(opts) ==
    LET bitmask == UNION {OptionMask(o) : o \in opts}
        bitvalue == UNION {OptionValue(o) : o \in opts}
    IN  IF bitmask = {} /\ bitvalue = {}
        THEN [bitmask |-> {SERVER_RUNNING}, bitvalue |-> {SERVER_RUNNING}]
        ELSE [bitmask |-> bitmask, bitvalue |-> bitvalue]

(***************************************************************************)
(* readconnroute: get_root_master                                          *)
(***************************************************************************)
RECURSIVE RootMasterFrom(_, _)
RootMasterFrom(i, master_host) ==
    IF i > Len(ServerList)
    THEN master_host
    ELSE LET ref == ServerList[i]
             better ==
                 /\ active[ref]
                 /\ server_is_master(status[ref])
                 /\ (master_host = NoServer \/ weight[ref] > weight[master_host])
         IN  RootMasterFrom(i + 1, IF better THEN ref ELSE master_host)

\* Mutation of get_root_master: the first master of the list, whatever its weight.
Mutant_get_root_master ==
    LET masters == {i \in DOMAIN ServerList :
                       active[ServerList[i]] /\ server_is_master(status[ServerList[i]])}
    IN  IF masters = {}
        THEN NoServer
        ELSE ServerList[CHOOSE i \in masters : \A j \in masters : i <= j]

get_root_master == RootMasterFrom(1, NoServer)

(***************************************************************************)
(* readconnroute: newSession, the candidate loop                           *)
(***************************************************************************)
\* Mutation of StatusMatches: the masked status must equal the masked value.
Mutant_StatusMatches(st, bitmask, bitvalue) ==
    /\ SERVER_RUNNING \in st
    /\ (st \cap bitmask) = (bitmask \cap bitvalue)

\* The status test of the loop and of connection_is_valid:
\* server_is_running(server) && (server->status & bitmask & bitvalue)
StatusMatches(st, bitmask, bitvalue) ==
    /\ server_is_running(st)
    /\ (st \cap bitmask \cap bitvalue) # {}

\* ((ref->connections + 1) * 1000) / ref->weight, for a non-zero weight
LoadRatio(ref) == ((connections[ref] + 1) * 1000) \div weight[ref]

\* Mutation of BetterCandidate: equal ratios never replace the candidate.
Mutant_BetterCandidate(candidate, ref) ==
    IF candidate = NoServer
    THEN ref
    ELSE IF weight[ref] = 0 \/ weight[candidate] = 0
    THEN (IF weight[ref] # 0 THEN ref ELSE candidate)
    ELSE IF ((connections[ref] + 1) * 1000) \div weight[ref]
                < ((connections[candidate] + 1) * 1000) \div weight[candidate]
    THEN ref
    ELSE candidate

\* The if / else-if chain that keeps or replaces the candidate.
BetterCandidate(candidate, ref) ==
    IF candidate = NoServer
    THEN ref
    ELSE IF weight[ref] = 0 \/ weight[candidate] = 0
    THEN (IF weight[ref] # 0 THEN ref ELSE candidate)
    ELSE IF LoadRatio(ref) < LoadRatio(candidate)
    THEN ref
    ELSE IF /\ LoadRatio(ref) = LoadRatio(candidate)
            /\ n_connections[ref] < n_connections[candidate]
    THEN ref
    ELSE candidate

\* The loop over dbref from position i on; the result is the candidate the
\* loop ends with (NoServer for NULL).
RECURSIVE CandidateFrom(_, _, _, _, _)
CandidateFrom(i, candidate, bitmask, bitvalue, master_host) ==
    IF i > Len(ServerList)
    THEN candidate
    ELSE LET ref == ServerList[i]
             next(c) == CandidateFrom(i + 1, c, bitmask, bitvalue, master_host)
         IN  IF ~active[ref] \/ server_is_in_maint(status[ref])
             THEN next(candidate)
             ELSE IF ~StatusMatches(status[ref], bitmask, bitvalue)
             THEN next(candidate)
             ELSE IF /\ master_host # NoServer
                     /\ ref = master_host
                     /\ (bitvalue \cap {SERVER_SLAVE, SERVER_MASTER}) = {SERVER_SLAVE}
             THEN next(candidate)
             ELSE IF /\ master_host # NoServer
                     /\ ref = master_host
                     /\ bitvalue = {SERVER_MASTER}
             THEN master_host
             ELSE IF master_host = NoServer /\ bitvalue = {SERVER_MASTER}
             THEN NoServer
             ELSE next(BetterCandidate(candidate, ref))

SelectCandidate(bitmask, bitvalue, master_host) ==
    CandidateFrom(1, NoServer, bitmask, bitvalue, master_host)

\* The session's bitvalue after the fallback to the master host.
FallbackBitvalue(bitvalue) ==
    IF SERVER_SLAVE \in bitvalue THEN bitvalue \cup {SERVER_MASTER} ELSE bitvalue

(***************************************************************************)
(* readconnroute: connection_is_valid and log_closed_session               *)
(***************************************************************************)
\* Mutation of connection_is_valid: a master session is not compared with the
\* root master.
Mutant_connection_is_valid(ses) ==
    StatusMatches(status[ses.backend], ses.bitmask, ses.bitvalue)

connection_is_valid(ses) ==
    IF StatusMatches(status[ses.backend], ses.bitmask, ses.bitvalue)
    THEN IF ses.bitvalue = {SERVER_MASTER} /\ active[ses.backend]
         THEN ses.backend = get_root_master
         ELSE TRUE
    ELSE FALSE

\* The text appended to "Failed to route MySQL command %d to backend server. "
log_closed_session(is_closed, st, valid) ==
    IF is_closed
    THEN "Session is closed."
    ELSE IF server_is_down(st)
    THEN "Server is down."
    ELSE IF server_is_in_maint(st)
    THEN "Server is in maintenance."
    ELSE IF ~valid
    THEN "Server no longer qualifies as a target server."
    ELSE ""

(***************************************************************************)
(* The router entry points.  A call is atomic; its return value stays in   *)
(* `ret` until the calling thread has taken it (RouterReturn).             *)
(***************************************************************************)
SessIds == 1 .. MaxSessions

NoRet == [op |-> "none", result |-> "none", sid |-> 0, msg |-> ""]

FreeSlot == CHOOSE sid \in SessIds \ DOMAIN sess : \A o \in SessIds \ DOMAIN sess : sid <= o

\* ref->connections after atomic_add(&candidate->connections, 1)
ConnectionsAfterNew(candidate) ==
    [connections EXCEPT ![candidate] = connections[candidate] + 1]

\* Mutation of ConnectionsAfterFree: the counter is not decremented.
Mutant_ConnectionsAfterFree(backend) == connections

\* ref->connections after atomic_add(&backend->connections, -1)
ConnectionsAfterFree(backend) ==
    [connections EXCEPT ![backend] = connections[backend] - 1]

\* Mutation of newSession: the connection count is bumped before the connect.
Mutant_newSession(connect_ok) ==
    /\ ret = NoRet
    /\ DOMAIN sess # SessIds
    /\ \A s \in Servers : n_connections[s] < MaxLifetime
    /\ LET bitmask == inst.bitmask
           bitvalue == inst.bitvalue
           master_host == get_root_master
           found == SelectCandidate(bitmask, bitvalue, master_host)
           candidate == IF found # NoServer THEN found ELSE master_host
           ses_bitvalue ==
               IF found = NoServer /\ master_host # NoServer
               THEN FallbackBitvalue(bitvalue)
               ELSE bitvalue
           sid == FreeSlot
       IN  IF candidate = NoServer
           THEN /\ ret' = [NoRet EXCEPT !.op = "newSession", !.result = "no_candidate"]
                /\ UNCHANGED <<sess, connections, n_connections>>
           ELSE IF ~connect_ok
           THEN /\ ret' = [NoRet EXCEPT !.op = "newSession", !.result = "connect_failed"]
                /\ connections' = ConnectionsAfterNew(candidate)
                /\ UNCHANGED <<sess, n_connections>>
           ELSE /\ sess' = sess @@ (sid :>
                        [backend |-> candidate,
                         bitmask |-> bitmask,
                         bitvalue |-> ses_bitvalue,
                         rses_closed |-> FALSE,
                         backend_dcb |-> TRUE])
                /\ connections' = ConnectionsAfterNew(candidate)
                /\ n_connections' = [n_connections EXCEPT ![candidate] = @ + 1]
                /\ ret' = [NoRet EXCEPT !.op = "newSession", !.result = "bound", !.sid = sid]
    /\ UNCHANGED <<status, weight, active, inst>>
    /\ UNCHANGED <<mon_state, worker_vars, journal_vars, repl_vars, script, request_vars, admin>>
    /\ UNCHANGED start_vars
    /\ UNCHANGED cfg_vars

newSession(connect_ok) ==
    /\ ret = NoRet
    /\ DOMAIN sess # SessIds
    /\ \A s \in Servers : n_connections[s] < MaxLifetime
    /\ LET bitmask == inst.bitmask
           bitvalue == inst.bitvalue
           master_host == get_root_master
           found == SelectCandidate(bitmask, bitvalue, master_host)
           candidate == IF found # NoServer THEN found ELSE master_host
           ses_bitvalue ==
               IF found = NoServer /\ master_host # NoServer
               THEN FallbackBitvalue(bitvalue)
               ELSE bitvalue
           sid == FreeSlot
       IN  IF candidate = NoServer
           THEN /\ ret' = [NoRet EXCEPT !.op = "newSession", !.result = "no_candidate"]
                /\ UNCHANGED <<sess, connections, n_connections>>
           ELSE IF ~connect_ok
           THEN /\ ret' = [NoRet EXCEPT !.op = "newSession", !.result = "connect_failed"]
                /\ UNCHANGED <<sess, connections, n_connections>>
           ELSE /\ sess' = sess @@ (sid :>
                        [backend |-> candidate,
                         bitmask |-> bitmask,
                         bitvalue |-> ses_bitvalue,
                         rses_closed |-> FALSE,
                         backend_dcb |-> TRUE])
                /\ connections' = ConnectionsAfterNew(candidate)
                /\ n_connections' = [n_connections EXCEPT ![candidate] = @ + 1]
                /\ ret' = [NoRet EXCEPT !.op = "newSession", !.result = "bound", !.sid = sid]
    /\ UNCHANGED <<status, weight, active, inst>>
    /\ UNCHANGED <<mon_state, worker_vars, journal_vars, repl_vars, script, request_vars, admin>>
    /\ UNCHANGED start_vars
    /\ UNCHANGED cfg_vars

closeSession(sid) ==
    /\ sid \in DOMAIN sess
    /\ ~sess[sid].rses_closed
    /\ sess' = [sess EXCEPT ![sid].backend_dcb = FALSE, ![sid].rses_closed = TRUE]
    /\ UNCHANGED <<registry_vars, inst, ret>>
    /\ UNCHANGED <<mon_state, worker_vars, journal_vars, repl_vars, script, request_vars, admin>>
    /\ UNCHANGED start_vars
    /\ UNCHANGED cfg_vars

freeSession(sid) ==
    /\ sid \in DOMAIN sess
    /\ connections' = ConnectionsAfterFree(sess[sid].backend)
    /\ sess' = [x \in DOMAIN sess \ {sid} |-> sess[x]]
    /\ UNCHANGED <<status, weight, active, n_connections, inst, ret>>
    /\ UNCHANGED <<mon_state, worker_vars, journal_vars, repl_vars, script, request_vars, admin>>
    /\ UNCHANGED start_vars
    /\ UNCHANGED cfg_vars

\* `valid` is assigned only when the first two operands of the || are false;
\* otherwise log_closed_session is handed an uninitialised value.
routeQuery(sid, uninitialised) ==
    /\ ret = NoRet
    /\ sid \in DOMAIN sess
    /\ LET ses == sess[sid]
           rses_is_closed == ses.rses_closed
           short_circuit == rses_is_closed \/ ~ses.backend_dcb
           valid == IF short_circuit THEN uninitialised ELSE ~connection_is_valid(ses)
           dropped == short_circuit \/ valid
       IN  ret' =
               IF dropped
               THEN [NoRet EXCEPT !.op = "routeQuery", !.result = "dropped", !.sid = sid,
                                  !.msg = log_closed_session(rses_is_closed,
                                                             status[ses.backend], valid)]
               ELSE [NoRet EXCEPT !.op = "routeQuery", !.result = "forwarded", !.sid = sid]
    /\ UNCHANGED <<registry_vars, inst, sess>>
    /\ UNCHANGED <<mon_state, worker_vars, journal_vars, repl_vars, script, request_vars, admin>>
    /\ UNCHANGED start_vars
    /\ UNCHANGED cfg_vars

\* The session layer closes the session whose routeQuery has returned 0: the
\* router's closeSession runs for it.
CloseFailedSession(r) ==
    IF r.op = "routeQuery" /\ r.result = "dropped" /\ r.sid \in DOMAIN sess
    THEN [sess EXCEPT ![r.sid].backend_dcb = FALSE, ![r.sid].rses_closed = TRUE]
    ELSE sess

RouterReturn ==
    /\ ret # NoRet
    /\ ret' = NoRet
    /\ sess' = CloseFailedSession(ret)
    /\ UNCHANGED <<registry_vars, inst>>
    /\ UNCHANGED <<mon_state, worker_vars, journal_vars, repl_vars, script, request_vars, admin>>
    /\ UNCHANGED start_vars
    /\ UNCHANGED cfg_vars

(***************************************************************************)
(* monitor.cc: state change detection                                      *)
(***************************************************************************)
\* static_cast<uint64_t>(-1): every bit of the word is set.
STATUS_UNSET == AllBits \cup {"OTHER_BITS"}

\* Mutation of mon_status_changed: any difference of the masked words counts.
Mutant_mon_status_changed(prev_status, cur_status) ==
    /\ prev_status # STATUS_UNSET
    /\ (prev_status \cap all_server_bits) # (cur_status \cap all_server_bits)

\* Mutation of mon_status_changed: a change between two words without
\* SERVER_RUNNING counts.
Mutant_mon_status_changedDown(prev_status, cur_status) ==
    IF prev_status # STATUS_UNSET
    THEN LET old_status == prev_status \cap all_server_bits
             new_status == cur_status \cap all_server_bits
         IN  /\ old_status # new_status
             /\ ((old_status \cup new_status) \cap {SERVER_MAINT}) = {}
    ELSE FALSE

mon_status_changed(prev_status, cur_status) ==
    IF prev_status # STATUS_UNSET
    THEN LET old_status == prev_status \cap all_server_bits
             new_status == cur_status \cap all_server_bits
         IN  /\ old_status # new_status
             /\ ((old_status \cup new_status) \cap {SERVER_MAINT}) = {}
             /\ ((old_status \cup new_status) \cap {SERVER_RUNNING}) = {SERVER_RUNNING}
    ELSE FALSE

mon_print_fail_status(cur_status, err_count) ==
    server_is_down(cur_status) /\ err_count = 0

\* Mutation of GeneralEventType: a role that went away is not a loss.
Mutant_GeneralEventType(prev, present) ==
    IF SERVER_RUNNING \notin prev
    THEN (IF SERVER_RUNNING \in present THEN "UP_EVENT" ELSE "UNSUPPORTED_EVENT")
    ELSE IF SERVER_RUNNING \notin present
    THEN "DOWN_EVENT"
    ELSE LET prev_bits == prev \cap {SERVER_MASTER, SERVER_SLAVE}
             present_bits == present \cap {SERVER_MASTER, SERVER_SLAVE}
         IN  IF /\ (prev_bits = {} \/ prev_bits = present_bits)
                /\ (prev \cap server_type_bits) # {}
             THEN "LOSS_EVENT"
             ELSE "NEW_EVENT"

\* The general_event_type of mon_get_event_type.
GeneralEventType(prev, present) ==
    IF SERVER_RUNNING \notin prev
    THEN (IF SERVER_RUNNING \in present THEN "UP_EVENT" ELSE "UNSUPPORTED_EVENT")
    ELSE IF SERVER_RUNNING \notin present
    THEN "DOWN_EVENT"
    ELSE LET prev_bits == prev \cap {SERVER_MASTER, SERVER_SLAVE}
             present_bits == present \cap {SERVER_MASTER, SERVER_SLAVE}
         IN  IF /\ (prev_bits = {} \/ present_bits = {} \/ prev_bits = present_bits)
                /\ (prev \cap server_type_bits) # {}
             THEN "LOSS_EVENT"
             ELSE "NEW_EVENT"

\* The role that flavours an event: the first of MASTER, SLAVE, JOINED, NDB set.
EventFlavour(bits, master, slave, synced, ndb, other) ==
    IF SERVER_MASTER \in bits THEN master
    ELSE IF SERVER_SLAVE \in bits THEN slave
    ELSE IF SERVER_JOINED \in bits THEN synced
    ELSE IF SERVER_NDB \in bits THEN ndb
    ELSE other

mon_get_event_type(prev_status, cur_status) ==
    LET prev == prev_status \cap all_server_bits
        present == cur_status \cap all_server_bits
        event_type == GeneralEventType(prev, present)
    IN  IF prev = present
        THEN "UNDEFINED_EVENT"
        ELSE CASE event_type = "UP_EVENT" ->
                      EventFlavour(present, "MASTER_UP_EVENT", "SLAVE_UP_EVENT",
                                   "SYNCED_UP_EVENT", "NDB_UP_EVENT", "SERVER_UP_EVENT")
               [] event_type = "DOWN_EVENT" ->
                      EventFlavour(prev, "MASTER_DOWN_EVENT", "SLAVE_DOWN_EVENT",
                                   "SYNCED_DOWN_EVENT", "NDB_DOWN_EVENT", "SERVER_DOWN_EVENT")
               [] event_type = "LOSS_EVENT" ->
                      EventFlavour(prev, "LOST_MASTER_EVENT", "LOST_SLAVE_EVENT",
                                   "LOST_SYNCED_EVENT", "LOST_NDB_EVENT", "UNDEFINED_EVENT")
               [] event_type = "NEW_EVENT" ->
                      EventFlavour(present, "NEW_MASTER_EVENT", "NEW_SLAVE_EVENT",
                                   "NEW_SYNCED_EVENT", "NEW_NDB_EVENT", "UNDEFINED_EVENT")
               [] OTHER -> "UNDEFINED_EVENT"

(***************************************************************************)
(* monitor.cc: admin requests                                              *)
(***************************************************************************)
NO_CHANGE == "NO_CHANGE"
MAINT_ON == "MAINT_ON"
MAINT_OFF == "MAINT_OFF"
BEING_DRAINED_ON == "BEING_DRAINED_ON"
BEING_DRAINED_OFF == "BEING_DRAINED_OFF"

STATUS_FLAG_NOCHECK == "NOCHECK"
STATUS_FLAG_CHECK == "CHECK"

\* Mutation of ApplyRequest: leaving maintenance also clears the role bits.
Mutant_ApplyRequest(st, admin_msg) ==
    CASE admin_msg = MAINT_ON -> st \cup {SERVER_MAINT}
      [] admin_msg = MAINT_OFF -> st \ ({SERVER_MAINT} \cup server_type_bits)
      [] admin_msg = BEING_DRAINED_ON -> st \cup {SERVER_BEING_DRAINED}
      [] admin_msg = BEING_DRAINED_OFF -> st \ {SERVER_BEING_DRAINED}
      [] OTHER -> st

\* Mutation of ApplyRequest: the case MAINT_OFF is missing.
Mutant_ApplyRequestNoOff(st, admin_msg) ==
    CASE admin_msg = MAINT_ON -> st \cup {SERVER_MAINT}
      [] admin_msg = BEING_DRAINED_ON -> st \cup {SERVER_BEING_DRAINED}
      [] admin_msg = BEING_DRAINED_OFF -> st \ {SERVER_BEING_DRAINED}
      [] OTHER -> st

\* The switch of monitor_check_maintenance_requests applied to server->status.
ApplyRequest(st, admin_msg) ==
    CASE admin_msg = MAINT_ON -> st \cup {SERVER_MAINT}
      [] admin_msg = MAINT_OFF -> st \ {SERVER_MAINT}
      [] admin_msg = BEING_DRAINED_ON -> st \cup {SERVER_BEING_DRAINED}
      [] admin_msg = BEING_DRAINED_OFF -> st \ {SERVER_BEING_DRAINED}
      [] OTHER -> st

\* The request set_server_status / clear_server_status writes for `bit`.
RequestFor(op, bit) ==
    IF op = "set"
    THEN (IF SERVER_MAINT \in bit THEN MAINT_ON ELSE BEING_DRAINED_ON)
    ELSE (IF SERVER_MAINT \in bit THEN MAINT_OFF ELSE BEING_DRAINED_OFF)

AdminOps == {"set", "clear"}

Mutant_ModifiableBits == {SERVER_MAINT, SERVER_BEING_DRAINED, SERVER_RUNNING}

\* The bits set_server_status / clear_server_status accept on a running
\* monitor: bit & ~(SERVER_MAINT | SERVER_BEING_DRAINED) is zero.
ModifiableBits == {SERVER_MAINT, SERVER_BEING_DRAINED}

AdminIdle ==
    [pc |-> "idle", written |-> FALSE, error |-> FALSE, warned |-> FALSE,
     srv |-> NoServer, bit |-> {}, request |-> NO_CHANGE]

\* Monitor::set_server_status / Monitor::clear_server_status up to and including
\* the exchange of the request slot (or the direct write on a stopped monitor).
AdminStatusCall(srv, op, bit) ==
    /\ admin.pc = "idle"
    /\ IF mon_state = "RUNNING"
       THEN IF (bit \ ModifiableBits) # {}
            THEN /\ admin' = [AdminIdle EXCEPT !.pc = "done", !.error = TRUE,
                                               !.srv = srv, !.bit = bit]
                 /\ UNCHANGED <<status, status_request>>
            ELSE /\ status_request' = [status_request EXCEPT ![srv] = RequestFor(op, bit)]
                 /\ admin' = [AdminIdle EXCEPT !.pc = "store_flag", !.written = TRUE,
                                               !.warned = (status_request[srv] # NO_CHANGE),
                                               !.srv = srv, !.bit = bit,
                                               !.request = RequestFor(op, bit)]
                 /\ UNCHANGED status
       ELSE /\ status' = [status EXCEPT ![srv] =
                             IF op = "set" THEN status[srv] \cup bit ELSE status[srv] \ bit]
            /\ admin' = [AdminIdle EXCEPT !.pc = "done", !.written = TRUE,
                                          !.srv = srv, !.bit = bit]
            /\ UNCHANGED status_request
    /\ mon_log' = IF admin'.request # NO_CHANGE
                  THEN [mon_log EXCEPT !.maint_due = @ \ {srv}, !.maint_late = @ \ {srv}]
                  ELSE mon_log
    /\ UNCHANGED <<weight, active, connections, n_connections, router_vars, repl_vars, script>>
    /\ UNCHANGED start_vars
    /\ UNCHANGED cfg_vars
    /\ UNCHANGED <<mon_state, journal_vars, check_status_flag>>
    /\ UNCHANGED <<mpc, mi, pending_status, mon_prev_status, mon_err_count, m_ticks, last_event>>

\* atomic_store_int(&this->check_status_flag, Monitor::STATUS_FLAG_CHECK)
AdminStoreFlag ==
    /\ admin.pc = "store_flag"
    /\ check_status_flag' = STATUS_FLAG_CHECK
    /\ admin' = [admin EXCEPT !.pc = "done"]
    /\ UNCHANGED <<registry_vars, router_vars, repl_vars, script>>
    /\ UNCHANGED start_vars
    /\ UNCHANGED cfg_vars
    /\ UNCHANGED <<mon_state, worker_vars, journal_vars, status_request>>

AdminReturn ==
    /\ admin.pc = "done"
    /\ admin' = AdminIdle
    /\ mon_log' = CASE admin.request = MAINT_ON /\ mpc = "sleep" ->
                           [mon_log EXCEPT !.maint_due = @ \cup {admin.srv}]
                    [] admin.request = MAINT_ON /\ mpc # "sleep" ->
                           [mon_log EXCEPT !.maint_late = @ \cup {admin.srv}]
                    [] OTHER -> mon_log
    /\ UNCHANGED <<registry_vars, router_vars, repl_vars, script>>
    /\ UNCHANGED start_vars
    /\ UNCHANGED cfg_vars
    /\ UNCHANGED <<mon_state, journal_vars, request_vars>>
    /\ UNCHANGED <<mpc, mi, pending_status, mon_prev_status, mon_err_count, m_ticks, last_event>>

(***************************************************************************)
(* monitor.cc: the monitor worker, MonitorWorker::run_one_tick             *)
(*                                                                         *)
(* mpc is the statement the worker executes next:                          *)
(*   "sleep"   between two calls of run_one_tick                           *)
(*   "drain"   the loop of monitor_check_maintenance_requests, at mi       *)
(*   "probe"   the loop of MonitorWorkerSimple::tick, at mi                *)
(*   "ticks"   mxb::atomic::add(&m_ticks, 1)                               *)
(*   "flush"   flush_server_status                                         *)
(*   "detect"  process_state_changes                                       *)
(*   "hangup"  mon_hangup_failed_servers                                   *)
(*   "journal" store_server_journal                                        *)
(***************************************************************************)
NoRequests == [s \in Servers |-> NO_CHANGE]

\* No hook subprocess runs.
NoScript == [state |-> "none", server |-> NoServer]

\* server->last_event of a server without an event yet.
NoEvents == [s \in Servers |-> "UNDEFINED_EVENT"]

\* What the tick in progress has read, logged and dispatched.
MonLogEmpty ==
    [start_status |-> [s \in Servers |-> {}], \* server->status when the tick began
     flags_changed |-> STATUS_FLAG_NOCHECK,   \* check_status_flag as exchanged
     requested |-> {},                        \* servers with a request when the tick began
     maint_due |-> {},                        \* servers for which the admin returned from
                                              \* writing MAINT_ON before the tick began
     maint_late |-> {},                       \* servers for which the admin returned from
                                              \* writing MAINT_ON during the tick; either
                                              \* without an admin write to the slot since
     applied |-> {},                          \* servers whose request the drain loop applied
     connect_errors |-> {},                   \* servers with mon_log_connect_error
     events |-> {},                           \* servers with an event computed
     scripts |-> {},                          \* servers with launch_script
     master_switch |-> FALSE,                 \* "Master switch detected" logged
     hangups |-> {}]                          \* servers with dcb_hangup_foreach

\* run_one_tick is entered: the exchange of check_status_flag.
TickStart ==
    /\ mon_state = "RUNNING"
    /\ mpc = "sleep"
    /\ m_ticks < MaxTicks
    /\ check_status_flag' = STATUS_FLAG_NOCHECK
    /\ mon_log' = [MonLogEmpty EXCEPT !.start_status = status,
                                      !.flags_changed = check_status_flag,
                                      !.requested =
                                          {s \in MonitoredServers :
                                               status_request[s] # NO_CHANGE},
                                      !.maint_due = mon_log.maint_due]
    /\ mpc' = IF check_status_flag # STATUS_FLAG_NOCHECK THEN "drain" ELSE "probe"
    /\ mi' = 1
    /\ UNCHANGED <<registry_vars, router_vars, repl_vars, script>>
    /\ UNCHANGED start_vars
    /\ UNCHANGED cfg_vars
    /\ UNCHANGED <<mon_state, admin, journal_vars, status_request>>
    /\ UNCHANGED <<pending_status, mon_prev_status, mon_err_count, m_ticks, last_event>>

\* One iteration of the loop of monitor_check_maintenance_requests.
DrainRequest ==
    /\ mon_state = "RUNNING"
    /\ mpc = "drain"
    /\ LET ptr == m_servers[mi]
           admin_msg == status_request[ptr]
       IN  /\ status_request' = [status_request EXCEPT ![ptr] = NO_CHANGE]
           /\ status' = [status EXCEPT ![ptr] = ApplyRequest(status[ptr], admin_msg)]
           /\ mon_log' =
                  IF admin_msg # NO_CHANGE
                  THEN [mon_log EXCEPT !.applied = @ \cup {ptr}]
                  ELSE mon_log
    /\ IF mi < Len(m_servers)
       THEN mi' = mi + 1 /\ mpc' = "drain"
       ELSE mi' = 1 /\ mpc' = "probe"
    /\ UNCHANGED <<weight, active, connections, n_connections, router_vars, repl_vars, script>>
    /\ UNCHANGED start_vars
    /\ UNCHANGED cfg_vars
    /\ UNCHANGED <<mon_state, admin, journal_vars, check_status_flag>>
    /\ UNCHANGED <<pending_status, mon_prev_status, mon_err_count, m_ticks, last_event>>

\* Outcomes of ping_or_connect.
ProbeResults == {"ok", "refused", "access_denied"}

\* The role bits the monitor module's update_server_status may discover.
DiscoveredRoles == {{}, {SERVER_MASTER}, {SERVER_SLAVE}}

\* Outcomes of the disk space check of a probe: not due, or the verdict.
DiskChecks == {"not_due"}

\* update_disk_space_status on the pending status.
DiskSpaceStatus(pending, disk) ==
    CASE disk = "exhausted" -> pending \cup {SERVER_DISK_SPACE_EXHAUSTED}
      [] disk = "not_exhausted" -> pending \ {SERVER_DISK_SPACE_EXHAUSTED}
      [] OTHER -> pending

\* check_disk_space_exhausted: the used percentage, cut to an integer, has
\* reached the limit.
check_disk_space_exhausted(san, max_percentage) ==
    ((san.total - san.available) * 100) \div san.total >= max_percentage

\* update_disk_space_status, the loop over dst from its item i on: every
\* listed path that the server has assigns disk_space_exhausted.
RECURSIVE ExhaustedAfterListed(_, _, _, _)
ExhaustedAfterListed(dst, info, i, disk_space_exhausted) ==
    IF i > Len(dst)
    THEN disk_space_exhausted
    ELSE IF dst[i].path # "*" /\ dst[i].path \in DOMAIN info
    THEN ExhaustedAfterListed(dst, info, i + 1,
             check_disk_space_exhausted(info[dst[i].path], dst[i].max_percentage))
    ELSE ExhaustedAfterListed(dst, info, i + 1, disk_space_exhausted)

\* std::map<std::string, disk::SizesAndName> is walked in the order of its
\* keys.
PathOrder == <<"/data", "/logs">>

\* update_disk_space_status, the loop over info from its item j on, for a
\* "*" limit: every path not checked before assigns disk_space_exhausted.
RECURSIVE ExhaustedAfterStar(_, _, _, _, _)
ExhaustedAfterStar(info, checked_paths, star_max_percentage, j, disk_space_exhausted) ==
    IF j > Len(PathOrder)
    THEN disk_space_exhausted
    ELSE IF PathOrder[j] \in DOMAIN info /\ PathOrder[j] \notin checked_paths
    THEN ExhaustedAfterStar(info, checked_paths, star_max_percentage, j + 1,
             check_disk_space_exhausted(info[PathOrder[j]], star_max_percentage))
    ELSE ExhaustedAfterStar(info, checked_paths, star_max_percentage, j + 1,
                            disk_space_exhausted)

\* update_disk_space_status with rv == 0: the verdict it writes to the
\* pending status; should_update_disk_space_status is false without limits.
update_disk_space_status(dst, info) ==
    LET listed == ExhaustedAfterListed(dst, info, 1, FALSE)
        checked_paths == {dst[i].path : i \in {k \in DOMAIN dst : dst[k].path \in DOMAIN info}}
        stars == {i \in DOMAIN dst : dst[i].path = "*"}
        disk_space_exhausted ==
            IF stars = {}
            THEN listed
            ELSE ExhaustedAfterStar(info, checked_paths,
                                    dst[CHOOSE i \in stars : TRUE].max_percentage, 1, listed)
    IN  IF dst = << >> THEN "not_due"
        ELSE IF disk_space_exhausted THEN "exhausted"
        ELSE "not_exhausted"

\* update_server_status of the monitor module: the role bits are replaced by
\* the discovered ones.
UpdateServerStatus(pending, roles) == (pending \ server_type_bits) \cup roles

\* The pending status of a probed server: the branches of tick() on the
\* outcome of ping_or_connect, starting from pending_status = server->status.
ProbedStatus(cur_status, result, roles, disk) ==
    IF result = "ok"
    THEN UpdateServerStatus(
             DiskSpaceStatus((cur_status \ {SERVER_AUTH_ERROR}) \cup {SERVER_RUNNING}, disk),
             roles)
    ELSE LET cleared == cur_status \cap {SERVER_WAS_MASTER}
         IN  IF result = "access_denied"
             THEN cleared \cup {SERVER_AUTH_ERROR}
             ELSE cleared \ {SERVER_AUTH_ERROR}

\* One iteration of the loop of MonitorWorkerSimple::tick.  The notes of the
\* drain loop are dropped once the probes begin.
Probe(result, roles, disk) ==
    /\ mon_state = "RUNNING"
    /\ mpc = "probe"
    /\ LET pMs == m_servers[mi]
           st == status[pMs]
           log == [mon_log EXCEPT !.flags_changed = STATUS_FLAG_NOCHECK,
                                  !.requested = {}, !.applied = {}]
       IN  IF ~server_is_in_maint(st)
           THEN /\ mon_prev_status' = [mon_prev_status EXCEPT ![pMs] = st]
                /\ pending_status' =
                       [pending_status EXCEPT ![pMs] = ProbedStatus(st, result, roles, disk)]
                /\ mon_log' =
                       IF /\ result # "ok"
                          /\ mon_status_changed(st, st)
                          /\ mon_print_fail_status(st, mon_err_count[pMs])
                       THEN [log EXCEPT !.connect_errors = @ \cup {pMs}]
                       ELSE log
                /\ mon_err_count' =
                       [mon_err_count EXCEPT ![pMs] = IF server_is_down(st) THEN @ + 1 ELSE 0]
           ELSE /\ mon_log' = log
                /\ UNCHANGED <<mon_prev_status, pending_status, mon_err_count>>
    /\ IF mi < Len(m_servers)
       THEN mi' = mi + 1 /\ mpc' = "probe"
       ELSE mi' = 1 /\ mpc' = "ticks"
    /\ con' = IF server_is_in_maint(status[m_servers[mi]]) THEN con ELSE con \cup {m_servers[mi]}
    /\ UNCHANGED <<registry_vars, router_vars, repl_vars, script>>
    /\ UNCHANGED <<m_checked, m_lock, m_shutdown, start_log>>
    /\ UNCHANGED cfg_vars
    /\ UNCHANGED <<mon_state, admin, journal_vars, request_vars>>
    /\ UNCHANGED <<m_ticks, last_event>>

\* mxb::atomic::add(&m_ticks, 1, mxb::atomic::RELAXED)
IncrementTicks ==
    /\ mon_state = "RUNNING"
    /\ mpc = "ticks"
    /\ m_ticks' = m_ticks + 1
    /\ mpc' = "flush"
    /\ UNCHANGED <<registry_vars, router_vars, repl_vars, script>>
    /\ UNCHANGED start_vars
    /\ UNCHANGED cfg_vars
    /\ UNCHANGED <<mon_state, admin, journal_vars, request_vars>>
    /\ UNCHANGED <<mi, pending_status, mon_prev_status, mon_err_count, last_event, mon_log>>

Mutant_FlushedStatus ==
    pending_status

\* server->status of every server after MonitorWorker::flush_server_status
FlushedStatus ==
    [s \in Servers |->
        IF s \in MonitoredServers /\ ~server_is_in_maint(status[s])
        THEN pending_status[s]
        ELSE status[s]]

\* flush_server_status publishes the pending status words.  ns.roots is
\* history: the root master of the published words is added to the root
\* masters a newSession call in progress has lived through.
FlushServerStatus ==
    /\ mon_state = "RUNNING"
    /\ mpc = "flush"
    /\ status' = FlushedStatus
    /\ mpc' = "detect"
    /\ UNCHANGED <<weight, active, connections, n_connections, router_vars, repl_vars, script>>
    /\ UNCHANGED start_vars
    /\ UNCHANGED <<disk_space_limits, disk_info, m_servers, m_all_monitors_lock, calls>>
    /\ UNCHANGED <<mon_state, admin, journal_vars, request_vars>>
    /\ UNCHANGED <<mi, pending_status, mon_prev_status, mon_err_count, m_ticks, last_event,
                   mon_log>>
    /\ ns' = IF ns.pc = "idle" THEN ns ELSE [ns EXCEPT !.roots = @ \cup {get_root_master'}]

\* The servers for which detect_handle_state_changes computes an event.
ChangedServers ==
    {s \in MonitoredServers : mon_status_changed(mon_prev_status[s], status[s])}

\* m_settings.script is set and m_settings.events holds every event.
ScriptLaunched(event) == TRUE

\* Monitor::detect_handle_state_changes run to its end: every script it
\* launches has returned.
DetectStateChanges ==
    /\ mon_state = "RUNNING"
    /\ mpc = "detect"
    /\ LET event(s) == mon_get_event_type(mon_prev_status[s], status[s])
           master_down == \E s \in ChangedServers : event(s) = "MASTER_DOWN_EVENT"
           master_up ==
               \E s \in ChangedServers :
                   event(s) \in {"MASTER_UP_EVENT", "NEW_MASTER_EVENT"}
       IN  /\ last_event' =
                  [s \in Servers |-> IF s \in ChangedServers THEN event(s) ELSE last_event[s]]
           /\ mon_log' =
                  [mon_log EXCEPT !.events = ChangedServers,
                                  !.scripts = {s \in ChangedServers : ScriptLaunched(event(s))},
                                  !.master_switch = (master_down /\ master_up)]
    /\ mpc' = "hangup"
    /\ UNCHANGED <<registry_vars, router_vars, repl_vars, script>>
    /\ UNCHANGED start_vars
    /\ UNCHANGED cfg_vars
    /\ UNCHANGED <<mon_state, admin, journal_vars, request_vars>>
    /\ UNCHANGED <<mi, pending_status, mon_prev_status, mon_err_count, m_ticks>>

\* The end of one iteration of the loop of detect_handle_state_changes, and
\* after the last one the "Master switch detected" notice.
DetectAdvance(log, events) ==
    IF mi < Len(m_servers)
    THEN /\ mi' = mi + 1
         /\ mpc' = "detect"
         /\ mon_log' = log
    ELSE /\ mi' = 1
         /\ mpc' = "hangup"
         /\ mon_log' =
                [log EXCEPT !.master_switch =
                    /\ \E s \in log.events : events[s] = "MASTER_DOWN_EVENT"
                    /\ \E s \in log.events :
                           events[s] \in {"MASTER_UP_EVENT", "NEW_MASTER_EVENT"}]

\* One iteration of the loop of detect_handle_state_changes, up to the call of
\* launch_script: launch_command calls externcmd_execute and has the script's
\* return value when that call returns.
DetectServer ==
    /\ mon_state = "RUNNING"
    /\ mpc = "detect"
    /\ LET ptr == m_servers[mi]
           event == mon_get_event_type(mon_prev_status[ptr], status[ptr])
           events == [last_event EXCEPT ![ptr] = event]
           log == [mon_log EXCEPT !.events = @ \cup {ptr}]
       IN  IF mon_status_changed(mon_prev_status[ptr], status[ptr])
           THEN /\ last_event' = events
                /\ IF ScriptLaunched(event)
                   THEN /\ script' = [state |-> "running", server |-> ptr]
                        /\ mon_log' = [log EXCEPT !.scripts = @ \cup {ptr}]
                        /\ mpc' = "script"
                        /\ mi' = mi
                   ELSE /\ DetectAdvance(log, events)
                        /\ UNCHANGED script
           ELSE /\ DetectAdvance(mon_log, last_event)
                /\ UNCHANGED <<last_event, script>>
    /\ UNCHANGED <<registry_vars, router_vars, repl_vars>>
    /\ UNCHANGED start_vars
    /\ UNCHANGED cfg_vars
    /\ UNCHANGED <<mon_state, admin, journal_vars, request_vars>>
    /\ UNCHANGED <<pending_status, mon_prev_status, mon_err_count, m_ticks>>

\* What becomes of the hook subprocess: it exits with 0 or with an error, or
\* it hangs and is killed when script_timeout has passed.
ScriptOutcomes == {"exited_0", "exited_error", "killed"}

ScriptEnds(outcome) ==
    /\ script.state = "running"
    /\ script' = [script EXCEPT !.state = outcome]
    /\ UNCHANGED <<registry_vars, router_vars, repl_vars>>
    /\ UNCHANGED start_vars
    /\ UNCHANGED cfg_vars
    /\ UNCHANGED <<mon_state, admin, journal_vars, request_vars, worker_vars>>

\* externcmd_execute returns rv to launch_command, launch_script returns and
\* the loop of detect_handle_state_changes goes on.
LaunchScriptReturns ==
    /\ mon_state = "RUNNING"
    /\ mpc = "script"
    /\ script.state \in ScriptOutcomes
    /\ script' = NoScript
    /\ DetectAdvance(mon_log, last_event)
    /\ UNCHANGED <<registry_vars, router_vars, repl_vars>>
    /\ UNCHANGED start_vars
    /\ UNCHANGED cfg_vars
    /\ UNCHANGED <<mon_state, admin, journal_vars, request_vars>>
    /\ UNCHANGED <<pending_status, mon_prev_status, mon_err_count, m_ticks, last_event>>

server_is_usable(st) == SERVER_RUNNING \in st /\ SERVER_MAINT \notin st

server_is_in_cluster(st) ==
    (st \cap {SERVER_MASTER, SERVER_SLAVE, SERVER_JOINED, SERVER_NDB}) # {}

\* mon_hangup_failed_servers
HangupFailedServers ==
    /\ mon_state = "RUNNING"
    /\ mpc = "hangup"
    /\ mon_log' =
           [mon_log EXCEPT !.hangups =
               {s \in ChangedServers :
                   ~server_is_usable(status[s]) \/ ~server_is_in_cluster(status[s])}]
    /\ mpc' = "journal"
    /\ UNCHANGED <<registry_vars, router_vars, repl_vars, script>>
    /\ UNCHANGED start_vars
    /\ UNCHANGED cfg_vars
    /\ UNCHANGED <<mon_state, admin, journal_vars, request_vars>>
    /\ UNCHANGED <<mi, pending_status, mon_prev_status, mon_err_count, m_ticks, last_event>>

(***************************************************************************)
(* The monitor journal.  A file is the sequence of the values written to   *)
(* it; NoFile is a name that does not exist.  A value is a number (the     *)
(* length, the schema version, the CRC32) or a typed, named entry.         *)
(***************************************************************************)
MMB_SCHEMA_VERSION == 2
\* m_settings.journal_max_age, in units of the ages below.
journal_max_age == 1
SVT_SERVER == 1
SVT_MASTER == 2

\* The value that stands for a name without a file: no file holds it, since no
\* value written has type -1.
NoFile == <<[type |-> -1, name |-> "", num |-> 0]>>
NoHash == << >>

\* The bits of the status word, lowest first.
BitOrder ==
    <<SERVER_RUNNING, SERVER_MAINT, SERVER_AUTH_ERROR, SERVER_MASTER, SERVER_SLAVE,
      SERVER_JOINED, SERVER_NDB, SERVER_WAS_MASTER, SERVER_BEING_DRAINED,
      SERVER_DISK_SPACE_EXHAUSTED>>

\* maxscale::set_byteN(ptr, status, MMB_LEN_SERVER_STATUS)
RECURSIVE StatusWordFrom(_, _)
StatusWordFrom(i, st) ==
    IF i > Len(BitOrder)
    THEN 0
    ELSE (IF BitOrder[i] \in st THEN 2 ^ (i - 1) ELSE 0) + StatusWordFrom(i + 1, st)

set_byteN(st) == StatusWordFrom(1, st)

\* maxscale::get_byteN(sptr, MMB_LEN_SERVER_STATUS)
get_byteN(word) ==
    {BitOrder[i] : i \in {j \in 1..Len(BitOrder) : (word \div (2 ^ (j - 1))) % 2 = 1}}

Number(n) == [type |-> 0, name |-> "", num |-> n]
ServerValue(name, word) == [type |-> SVT_SERVER, name |-> name, num |-> word]
MasterValue(name) == [type |-> SVT_MASTER, name |-> name, num |-> 0]

NameCode(name) ==
    IF name \in Servers THEN CHOOSE i \in 1..Len(ServerList) : ServerList[i] = name ELSE 0

\* crc32(crc32(0L, NULL, 0), data, size): a checksum of the values in order.
RECURSIVE crc32From(_, _)
crc32From(i, data) ==
    IF i > Len(data)
    THEN 0
    ELSE (i * (data[i].type * 4096 + NameCode(data[i].name) * 1024 + data[i].num)
          + 31 * crc32From(i + 1, data)) % 65521

crc32(data) == crc32From(1, data)

\* The payload store_data writes after the length: schema version, one entry
\* per server, the master's entry when there is a master.
JournalPayload(st, master) ==
    <<Number(MMB_SCHEMA_VERSION)>>
    \o [i \in 1..Len(m_servers) |-> ServerValue(m_servers[i], set_byteN(st[m_servers[i]]))]
    \o (IF master # NoServer THEN <<MasterValue(master)>> ELSE << >>)

\* store_data: the length of what follows, the payload, the CRC32 of the payload.
store_data(st, master) ==
    LET payload == JournalPayload(st, master)
    IN  <<Number(Len(payload) + 1)>> \o payload \o <<Number(crc32(payload))>>

\* SHA1(data, size, hash): the hash of the buffer without its last MMB_LEN_BYTES.
JournalHash(data) == SubSeq(data, 1, Len(data) - 1)

\* load_server_journal up to process_data_file: both reads succeed, the schema
\* version is known and the CRC32 matches.
JournalVerifies(file) ==
    /\ file # NoFile
    /\ Len(file) >= 1
    /\ file[1].num >= 2
    /\ Len(file) - 1 >= file[1].num
    /\ LET size == file[1].num
           data == SubSeq(file, 2, 1 + size)
       IN  /\ data[1] = Number(MMB_SCHEMA_VERSION)
           /\ crc32(SubSeq(data, 1, size - 1)) = data[size].num

\* The entries between the schema version and the CRC32.
JournalValues(file) == SubSeq(file, 3, file[1].num)

\* The name of an entry whose bytes hold no NUL up to the CRC32.
UnterminatedName == "unterminated"

\* has_null_terminator holds of the entry and its type is one of the switch.
KnownValue(value) ==
    /\ value.name # UnterminatedName
    /\ value.type \in {SVT_SERVER, SVT_MASTER}

\* process_data_file returns true: every entry is terminated and of a known
\* type.
JournalParses(file) ==
    /\ JournalVerifies(file)
    /\ \A i \in 1..Len(JournalValues(file)) : KnownValue(JournalValues(file)[i])

\* The entries process_data_file handles before it stops at an entry without
\* terminator or of an unknown type.
RECURSIVE KnownPrefix(_, _)
KnownPrefix(values, i) ==
    IF i > Len(values) \/ ~KnownValue(values[i])
    THEN i - 1
    ELSE KnownPrefix(values, i + 1)

ProcessedValues(file) ==
    IF JournalVerifies(file)
    THEN SubSeq(JournalValues(file), 1, KnownPrefix(JournalValues(file), 1))
    ELSE << >>

\* The status words process_server reads for server s, in file order.
StoredWords(values, s) ==
    {values[i].num : i \in {j \in 1..Len(values) :
                               values[j].type = SVT_SERVER /\ values[j].name = s}}

RECURSIVE LastStoredFrom(_, _, _, _)
LastStoredFrom(values, s, i, cur) ==
    IF i > Len(values)
    THEN cur
    ELSE LastStoredFrom(values, s, i + 1,
                        IF values[i].type = SVT_SERVER /\ values[i].name = s
                        THEN get_byteN(values[i].num)
                        ELSE cur)

\* process_server: server->set_status(status), monitor_set_pending_status(db, status)
process_server_status(cur, values, s) ==
    IF s \in MonitoredServers
    THEN cur \cup UNION {get_byteN(w) : w \in StoredWords(values, s)}
    ELSE cur

\* process_server: db->mon_prev_status = status
process_server_prev(cur, values, s) ==
    IF s \in MonitoredServers THEN LastStoredFrom(values, s, 1, cur) ELSE cur

\* process_master: *master = db for the entry that names a monitored server.
RECURSIVE process_master(_, _, _)
process_master(values, i, master) ==
    IF i > Len(values)
    THEN master
    ELSE process_master(values, i + 1,
                        IF values[i].type = SVT_MASTER /\ values[i].name \in MonitoredServers
                        THEN values[i].name
                        ELSE master)

JournalIdle == [pc |-> "idle", data |-> << >>]

\* run_one_tick returns once store_server_journal has.
TickReturns ==
    /\ mpc' = "sleep"
    /\ mon_log' = [MonLogEmpty EXCEPT !.maint_due = mon_log.maint_late]
    /\ jstore' = JournalIdle
    /\ UNCHANGED <<registry_vars, router_vars, repl_vars, script>>
    /\ UNCHANGED start_vars
    /\ UNCHANGED cfg_vars
    /\ UNCHANGED <<mon_state, admin, request_vars, m_master>>
    /\ UNCHANGED <<mi, pending_status, mon_prev_status, mon_err_count, m_ticks, last_event,
                   crashes>>

\* store_server_journal run to its end on a file system that accepts every
\* call: the buffer goes to a temporary file that is renamed to monitor.dat,
\* unless its hash is the hash of the journal stored last.
StoreServerJournal ==
    /\ mon_state = "RUNNING"
    /\ mpc = "journal"
    /\ jstore.pc = "idle"
    /\ LET data == store_data(status, m_master)
       IN  IF JournalHash(data) # m_journal_hash
           THEN /\ journal_file' = data
                /\ journal_synced' = FALSE
                /\ m_journal_hash' = JournalHash(data)
           ELSE UNCHANGED <<journal_file, journal_synced, m_journal_hash>>
    /\ UNCHANGED tmp_file
    /\ TickReturns

\* store_server_journal, first step: store_data, SHA1, and open_tmp_file when
\* the hash differs from the hash of the journal stored last.
StoreOpenTmp(open_ok) ==
    /\ mon_state = "RUNNING"
    /\ mpc = "journal"
    /\ jstore.pc = "idle"
    /\ LET data == store_data(status, m_master)
       IN  IF JournalHash(data) # m_journal_hash /\ open_ok
           THEN /\ tmp_file' = << >>
                /\ jstore' = [pc |-> "write", data |-> data]
                /\ UNCHANGED <<mpc, mon_log>>
                /\ UNCHANGED <<registry_vars, router_vars, repl_vars>>
                /\ UNCHANGED start_vars
                /\ UNCHANGED cfg_vars
                /\ UNCHANGED <<script, mon_state, admin, request_vars>>
                /\ UNCHANGED <<mi, pending_status, mon_prev_status, mon_err_count, m_ticks,
                               last_event, m_master, crashes>>
           ELSE /\ UNCHANGED tmp_file
                /\ TickReturns
    /\ UNCHANGED <<journal_file, journal_synced, m_journal_hash>>

\* store_server_journal: fwrite and fflush put the buffer into the temporary
\* file, one value at a time; a failed write ends the store and leaves the
\* temporary file as it is.
StoreWrite(write_ok) ==
    /\ mon_state = "RUNNING"
    /\ mpc = "journal"
    /\ jstore.pc = "write"
    /\ IF write_ok
       THEN /\ tmp_file' = Append(tmp_file, jstore.data[Len(tmp_file) + 1])
            /\ jstore' = [jstore EXCEPT !.pc = IF Len(tmp_file) + 1 = Len(jstore.data)
                                               THEN "rename" ELSE "write"]
            /\ UNCHANGED <<mpc, mon_log>>
            /\ UNCHANGED <<registry_vars, router_vars, repl_vars>>
            /\ UNCHANGED start_vars
            /\ UNCHANGED cfg_vars
            /\ UNCHANGED <<script, mon_state, admin, request_vars>>
            /\ UNCHANGED <<mi, pending_status, mon_prev_status, mon_err_count, m_ticks,
                           last_event, m_master, crashes>>
       ELSE /\ UNCHANGED tmp_file
            /\ TickReturns
    /\ UNCHANGED <<journal_file, journal_synced, m_journal_hash>>

\* Mutation of StoreRename: the hash is kept whether or not the rename worked.
Mutant_StoreRename(rename_ok) ==
    /\ mon_state = "RUNNING"
    /\ mpc = "journal"
    /\ jstore.pc = "rename"
    /\ IF rename_ok
       THEN /\ journal_file' = tmp_file
            /\ journal_synced' = FALSE
       ELSE UNCHANGED <<journal_file, journal_synced>>
    /\ m_journal_hash' = JournalHash(jstore.data)
    /\ tmp_file' = NoFile
    /\ TickReturns

\* store_server_journal: rename_tmp_file, then the hash is kept; unlink when
\* the rename failed.
StoreRename(rename_ok) ==
    /\ mon_state = "RUNNING"
    /\ mpc = "journal"
    /\ jstore.pc = "rename"
    /\ IF rename_ok
       THEN /\ journal_file' = tmp_file
            /\ journal_synced' = FALSE
            /\ m_journal_hash' = JournalHash(jstore.data)
       ELSE UNCHANGED <<journal_file, journal_synced, m_journal_hash>>
    /\ tmp_file' = NoFile
    /\ TickReturns

\* MonitorWorkerSimple::post_tick, the hook in which the monitor module names
\* the master it found.
post_tick(master) ==
    /\ mon_state = "RUNNING"
    /\ mpc = "ticks"
    /\ m_master # master
    /\ m_master' = master
    /\ UNCHANGED <<registry_vars, router_vars, repl_vars, script>>
    /\ UNCHANGED start_vars
    /\ UNCHANGED cfg_vars
    /\ UNCHANGED <<mon_state, admin, request_vars, worker_vars>>
    /\ UNCHANGED <<m_journal_hash, journal_file, journal_synced, tmp_file, jstore, crashes>>

\* What monitor_start and monitor_stop have done, for the properties below.
StartLogEmpty ==
    [call |-> "none", age |-> 0, permitted |-> FALSE, started |-> FALSE, loaded |-> FALSE]

\* Monitor::stop: do_stop joins the worker, which has returned from its tick.
MonitorStop ==
    /\ mon_state = "RUNNING"
    /\ mpc = "sleep"
    /\ admin = AdminIdle
    /\ m_lock = "free"
    /\ mon_state' = "STOPPED"
    /\ con' = {}
    /\ UNCHANGED <<registry_vars, router_vars, repl_vars, script>>
    /\ UNCHANGED <<m_checked, m_lock, m_shutdown, start_log>>
    /\ UNCHANGED cfg_vars
    /\ UNCHANGED <<admin, request_vars, worker_vars, journal_vars>>

\* MonitorWorker::start and pre_run: a stale journal is removed, m_master is
\* reset, and the worker loads the journal before its first tick.
MonitorStart(stale) ==
    /\ mon_state = "STOPPED"
    /\ admin = AdminIdle
    /\ LET file == IF stale THEN NoFile ELSE journal_file
           values == ProcessedValues(file)
       IN  /\ journal_file' = file
           /\ status' = [s \in Servers |-> process_server_status(status[s], values, s)]
           /\ pending_status' =
                  [s \in Servers |-> process_server_status(pending_status[s], values, s)]
           /\ mon_prev_status' =
                  [s \in Servers |-> process_server_prev(mon_prev_status[s], values, s)]
           /\ m_master' = process_master(values, 1, NoServer)
    /\ mon_state' = "RUNNING"
    /\ UNCHANGED <<weight, active, connections, n_connections>>
    /\ UNCHANGED <<router_vars, repl_vars, script, admin>>
    /\ UNCHANGED start_vars
    /\ UNCHANGED cfg_vars
    /\ UNCHANGED <<request_vars, mpc, mi, mon_err_count, m_ticks, last_event, mon_log>>
    /\ UNCHANGED <<m_journal_hash, journal_synced, tmp_file, jstore, crashes>>

Mutant_journal_is_stale(age) == journal_file = NoFile \/ age > journal_max_age

\* Monitor::journal_is_stale: there is no file, or tdiff >= max_age.
journal_is_stale(age) == journal_file = NoFile \/ age >= journal_max_age

Mutant_StartChecked(permitted) == TRUE

\* m_checked after the permission check of MonitorWorker::start, which is made
\* until it has succeeded once.
StartChecked(permitted) == m_checked \/ permitted

\* MonitorWorker::start on a stopped monitor: a stale journal is removed, the
\* permissions are checked until the check has succeeded once, and the worker
\* is started.
MonitorWorkerStart(age, permitted) ==
    /\ journal_file' = IF journal_is_stale(age) THEN NoFile ELSE journal_file
    /\ m_checked' = StartChecked(permitted)
    /\ IF StartChecked(permitted)
       THEN /\ m_master' = NoServer
            /\ mon_state' = "RUNNING"
            /\ mpc' = "pre_run"
       ELSE UNCHANGED <<m_master, mon_state, mpc>>
    /\ start_log' = [call |-> "start", age |-> age, permitted |-> permitted,
                      started |-> StartChecked(permitted), loaded |-> FALSE]

\* MonitorManager::monitor_start under m_lock, on a stopped monitor:
\* MonitorWorker::start removes a stale journal, checks the permissions and
\* starts the worker, whose pre_run has posted the semaphore when start
\* returns true.
monitor_start(age, permitted) ==
    /\ m_lock = "free"
    /\ mon_state = "STOPPED"
    /\ admin = AdminIdle
    /\ MonitorWorkerStart(age, permitted)
    /\ UNCHANGED <<registry_vars, router_vars, repl_vars, script, admin, request_vars>>
    /\ UNCHANGED <<mi, pending_status, mon_prev_status, mon_err_count, m_ticks, last_event,
                   mon_log>>
    /\ UNCHANGED <<m_journal_hash, journal_synced, tmp_file, jstore, crashes>>
    /\ UNCHANGED <<m_lock, m_shutdown, con>>
    /\ UNCHANGED cfg_vars

\* MonitorWorker::pre_run on the worker: load_server_journal, then the first
\* tick is scheduled.
pre_run ==
    /\ mon_state = "RUNNING"
    /\ mpc = "pre_run"
    /\ LET values == ProcessedValues(journal_file)
       IN  /\ status' = [s \in Servers |-> process_server_status(status[s], values, s)]
           /\ pending_status' =
                  [s \in Servers |-> process_server_status(pending_status[s], values, s)]
           /\ mon_prev_status' =
                  [s \in Servers |-> process_server_prev(mon_prev_status[s], values, s)]
           /\ m_master' = process_master(values, 1, m_master)
    /\ mpc' = "sleep"
    /\ start_log' = [start_log EXCEPT !.loaded = TRUE]
    /\ UNCHANGED <<weight, active, connections, n_connections>>
    /\ UNCHANGED <<router_vars, repl_vars, script, mon_state, admin, request_vars>>
    /\ UNCHANGED <<mi, mon_err_count, m_ticks, last_event, mon_log>>
    /\ UNCHANGED <<m_journal_hash, journal_file, journal_synced, tmp_file, jstore, crashes>>
    /\ UNCHANGED <<m_checked, m_lock, m_shutdown, con>>
    /\ UNCHANGED cfg_vars

\* monitor_stop takes m_lock and, on a running monitor, calls Monitor::stop,
\* whose do_stop asks the worker to shut down and waits in Worker::join.
monitor_stop ==
    /\ m_lock = "free"
    /\ mon_state = "RUNNING"
    /\ m_lock' = "stop"
    /\ m_shutdown' = TRUE
    /\ start_log' = [start_log EXCEPT !.call = "stop"]
    /\ UNCHANGED <<registry_vars, router_vars, repl_vars, script>>
    /\ UNCHANGED <<mon_state, admin, request_vars, worker_vars, journal_vars>>
    /\ UNCHANGED <<m_checked, con>>
    /\ UNCHANGED cfg_vars

\* The worker leaves its loop between two calls once it has been asked to
\* shut down, and its state is STOPPED.
WorkerExits ==
    /\ mon_state = "RUNNING"
    /\ m_shutdown
    /\ mpc = "sleep"
    /\ mon_state' = "STOPPED"
    /\ UNCHANGED <<registry_vars, router_vars, repl_vars, script>>
    /\ UNCHANGED <<admin, request_vars, worker_vars, journal_vars>>
    /\ UNCHANGED start_vars
    /\ UNCHANGED cfg_vars

Mutant_StopReturns ==
    /\ m_lock = "stop"
    /\ mon_state = "STOPPED"
    /\ m_lock' = "free"
    /\ m_shutdown' = FALSE
    /\ UNCHANGED <<registry_vars, router_vars, repl_vars, script>>
    /\ UNCHANGED <<mon_state, admin, request_vars, worker_vars, journal_vars>>
    /\ UNCHANGED <<m_checked, con, start_log>>
    /\ UNCHANGED cfg_vars

\* Worker::join has returned in do_stop: Monitor::stop closes the connection
\* of every server and monitor_stop releases m_lock.
StopReturns ==
    /\ m_lock = "stop"
    /\ mon_state = "STOPPED"
    /\ con' = {}
    /\ m_lock' = "free"
    /\ m_shutdown' = FALSE
    /\ UNCHANGED <<registry_vars, router_vars, repl_vars, script>>
    /\ UNCHANGED <<mon_state, admin, request_vars, worker_vars, journal_vars>>
    /\ UNCHANGED <<m_checked, start_log>>
    /\ UNCHANGED cfg_vars

\* The kernel writes the data of monitor.dat back to the disk.
Writeback ==
    /\ journal_file # NoFile
    /\ ~journal_synced
    /\ journal_synced' = TRUE
    /\ UNCHANGED <<registry_vars, router_vars, repl_vars, script>>
    /\ UNCHANGED start_vars
    /\ UNCHANGED cfg_vars
    /\ UNCHANGED <<mon_state, admin, request_vars, worker_vars>>
    /\ UNCHANGED <<m_master, m_journal_hash, journal_file, tmp_file, jstore, crashes>>

\* What a new process starts with: the memory of the process is gone.
ProcessRestarts ==
    /\ crashes < MaxCrashes
    /\ crashes' = crashes + 1
    /\ status' = [s \in Servers |-> {}]
    /\ connections' = [s \in Servers |-> 0]
    /\ n_connections' = [s \in Servers |-> 0]
    /\ sess' = << >>
    /\ ret' = NoRet
    /\ mon_state' = "STOPPED"
    /\ mpc' = "sleep"
    /\ mi' = 1
    /\ pending_status' = [s \in Servers |-> {}]
    /\ mon_prev_status' = [s \in Servers |-> STATUS_UNSET]
    /\ mon_err_count' = [s \in Servers |-> 0]
    /\ status_request' = NoRequests
    /\ check_status_flag' = STATUS_FLAG_NOCHECK
    /\ m_ticks' = 0
    /\ last_event' = NoEvents
    /\ mon_log' = MonLogEmpty
    /\ admin' = AdminIdle
    /\ m_master' = NoServer
    /\ m_journal_hash' = NoHash
    /\ jstore' = JournalIdle
    /\ m_checked' = FALSE
    /\ m_lock' = "free"
    /\ m_shutdown' = FALSE
    /\ con' = {}
    /\ start_log' = StartLogEmpty
    /\ UNCHANGED <<weight, active, inst, repl_vars, script>>
    /\ UNCHANGED cfg_vars

\* The process is killed at any point; the files stay as the kernel has them.
ProcessCrash ==
    /\ ProcessRestarts
    /\ UNCHANGED <<journal_file, journal_synced, tmp_file>>

\* What is left of a file whose data was handed to the kernel with write but
\* never with fsync, when the machine stops: any leading part of it.
DiskOutcomes(file, synced) ==
    IF file = NoFile \/ synced
    THEN {file}
    ELSE {SubSeq(file, 1, n) : n \in 0..Len(file)}

\* The machine stops at any point: store_server_journal renames the temporary
\* file after fflush; nothing has told the kernel to put its data on the disk.
SystemCrash ==
    /\ ProcessRestarts
    /\ journal_file' \in DiskOutcomes(journal_file, journal_synced)
    /\ tmp_file' \in DiskOutcomes(tmp_file, FALSE)
    /\ journal_synced' = TRUE

(***************************************************************************)
(* The replicator (cdc::Replicator::Imp): one thread runs process_events.  *)
(***************************************************************************)
\* The table ids of TABLE_MAP and row events.
TableIds == {1, 2}

\* The GTID events of the source: domain 1, server 101.
GtidEvents ==
    {[event_type |-> "GTID_EVENT", domain_id |-> 1, server_id |-> 101, sequence_nr |-> n,
      table_id |-> 0] : n \in 1..MaxSeq}

OtherEvent(type, id) ==
    [event_type |-> type, domain_id |-> 0, server_id |-> 101, sequence_nr |-> 0,
     table_id |-> id]

\* What fetch_event returns.
ReplicationEvents ==
    GtidEvents
    \cup {OtherEvent(type, 0) : type \in {"XID_EVENT", "QUERY_EVENT", "UPDATE_ROWS_EVENT_V1",
                                          "DELETE_ROWS_EVENT_V1", "ROTATE_EVENT"}}
    \cup {OtherEvent(type, id) : type \in {"TABLE_MAP_EVENT", "WRITE_ROWS_EVENT_V1"},
                                 id \in TableIds}

\* The empty std::string.
NoGtid == << >>

\* to_gtid_string: domain_id '-' server_id '-' sequence_nr
to_gtid_string(event) == <<event.domain_id, event.server_id, event.sequence_nr>>

\* m_tables without entries; an entry is the number of row events its Table
\* has queued.
NoTable == -1

\* The entry std::map::operator[] inserts for an id that has none: a
\* unique_ptr that holds no Table.
NullTable == -2
NoTables == [id \in TableIds |-> NoTable]

\* Table::open, Table::enqueue and Table::process.
TableOpen == 0
TableEnqueue(queued) == queued + 1
TableProcess(queued) == IF queued \in {NoTable, NullTable} THEN queued ELSE 0

ReplLogEmpty ==
    [event |-> "none",              \* the type of the event processed last
     connect_state |-> NoGtid,      \* @slave_connect_state of the latest connect
     session_gtid |-> FALSE,        \* a GTID event arrived on this connection
                                    \* and no XID event after it
     sleep |-> 0]                   \* seconds slept before the next loop turn

\* process_events: sleep_for(std::chrono::seconds(5)) after a failed connect
RetrySleep == 5

Mutant_ConnectState(committed, current) == current

\* connect: gtid_start_pos, "SET @slave_connect_state='" + m_gtid + "'"
ConnectState(committed, current) == committed

\* process_events: connect() when there is no connection.
ReplicatorConnect(connect_ok) ==
    /\ repl_thread = "running"
    /\ m_running
    /\ ~m_sql
    /\ m_sql' = connect_ok
    /\ repl_log' = IF connect_ok
                   THEN [event |-> "connect",
                         connect_state |-> ConnectState(m_gtid, m_current_gtid),
                         session_gtid |-> FALSE,
                         sleep |-> 0]
                   ELSE [repl_log EXCEPT !.event = "connect_failed", !.sleep = RetrySleep]
    /\ UNCHANGED <<m_running, m_gtid, m_current_gtid, m_tables, repl_thread>>
    /\ UNCHANGED start_vars
    /\ UNCHANGED cfg_vars
    /\ UNCHANGED <<registry_vars, router_vars, mon_state, admin, request_vars, worker_vars,
                   journal_vars, script>>

\* process_events: fetch_event returns NULL and the connection is closed.
ReplicatorFetchFails ==
    /\ repl_thread = "running"
    /\ m_running
    /\ m_sql
    /\ m_sql' = FALSE
    /\ repl_log' = [repl_log EXCEPT !.event = "lost", !.session_gtid = FALSE, !.sleep = 0]
    /\ UNCHANGED <<m_running, m_gtid, m_current_gtid, m_tables, repl_thread>>
    /\ UNCHANGED start_vars
    /\ UNCHANGED cfg_vars
    /\ UNCHANGED <<registry_vars, router_vars, mon_state, admin, request_vars, worker_vars,
                   journal_vars, script>>

Mutant_CommittedAfterRows(type, committed, current) ==
    IF type \in {"XID_EVENT", "UPDATE_ROWS_EVENT_V1"} THEN current ELSE committed

\* process_one_event, XID_EVENT: m_gtid = m_current_gtid
CommittedAfter(type, committed, current) ==
    IF type = "XID_EVENT" THEN current ELSE committed

\* process_one_event: what the event does to m_tables.
TablesAfter(event, tables) ==
    CASE event.event_type = "TABLE_MAP_EVENT" ->
             [tables EXCEPT ![event.table_id] = TableOpen]
      [] event.event_type = "QUERY_EVENT" ->
             [id \in TableIds |-> TableProcess(tables[id])]
      [] event.event_type = "WRITE_ROWS_EVENT_V1" ->
             [tables EXCEPT ![event.table_id] =
                                IF @ \in {NoTable, NullTable} THEN NullTable
                                ELSE TableEnqueue(@)]
      [] OTHER -> tables

\* process_one_event calls a member function through an entry that holds no
\* Table: m_tables[id]->enqueue(event) for an id without a Table, or
\* t.second->process() for an entry inserted that way.
NullUse(event, tables) ==
    \/ /\ event.event_type = "WRITE_ROWS_EVENT_V1"
       /\ tables[event.table_id] \in {NoTable, NullTable}
    \/ /\ event.event_type = "QUERY_EVENT"
       /\ \E id \in TableIds : tables[id] = NullTable

\* The thread after process_one_event: a call through an empty unique_ptr is
\* undefined, the thread stops there or goes on.
ThreadAfter(event, tables) ==
    IF NullUse(event, tables) THEN {"crashed", "running"} ELSE {"running"}

\* process_events: fetch_event returns an event, process_one_event handles
\* it.  A row event for a table id without a Table makes m_tables[id] a null
\* pointer through which enqueue is called: the thread stops there or goes
\* on with the empty entry in the map.
ReplicatorProcessEvent(event) ==
    /\ repl_thread = "running"
    /\ m_running
    /\ m_sql
    /\ event.event_type = "WRITE_ROWS_EVENT_V1" /\ m_tables[event.table_id] # NoTable
           => m_tables[event.table_id] < MaxQueue
    /\ m_current_gtid' = IF event.event_type = "GTID_EVENT"
                         THEN to_gtid_string(event)
                         ELSE m_current_gtid
    /\ m_gtid' = CommittedAfter(event.event_type, m_gtid, m_current_gtid)
    /\ m_tables' = TablesAfter(event, m_tables)
    /\ repl_thread' \in ThreadAfter(event, m_tables)
    /\ repl_log' = [repl_log EXCEPT
                        !.event = event.event_type,
                        !.sleep = 0,
                        !.session_gtid =
                            CASE event.event_type = "GTID_EVENT" -> TRUE
                              [] event.event_type = "XID_EVENT" -> FALSE
                              [] OTHER -> @]
    /\ UNCHANGED <<m_running, m_sql>>
    /\ UNCHANGED start_vars
    /\ UNCHANGED cfg_vars
    /\ UNCHANGED <<registry_vars, router_vars, mon_state, admin, request_vars, worker_vars,
                   journal_vars, script>>

\* Replicator::Imp::stop: m_running = false and the thread is joined.
ReplicatorStop ==
    /\ repl_thread = "running"
    /\ m_running
    /\ m_running' = FALSE
    /\ repl_thread' = "joined"
    /\ UNCHANGED <<m_sql, m_gtid, m_current_gtid, m_tables, repl_log>>
    /\ UNCHANGED start_vars
    /\ UNCHANGED cfg_vars
    /\ UNCHANGED <<registry_vars, router_vars, mon_state, admin, request_vars, worker_vars,
                   journal_vars, script>>

\* Replicator::Imp::stop and process_events step by step.  repl_thread is
\* "running" at the test of while (m_running), "fetch" inside
\* m_sql->fetch_event(), "exited" once the loop is left and "joined" when
\* m_thr.join() has returned.

\* Replicator::Imp::stop: m_running = false; the caller then waits in join.
\* Nothing here touches m_sql.
replicator_stop ==
    /\ repl_thread \in {"running", "fetch"}
    /\ m_running
    /\ m_running' = FALSE
    /\ UNCHANGED <<m_sql, m_gtid, m_current_gtid, m_tables, repl_thread, repl_log>>
    /\ UNCHANGED start_vars
    /\ UNCHANGED cfg_vars
    /\ UNCHANGED <<registry_vars, router_vars, mon_state, admin, request_vars, worker_vars,
                   journal_vars, script>>

\* process_events: while (m_running) is false, the thread function returns.
process_events_exit ==
    /\ repl_thread = "running"
    /\ ~m_running
    /\ repl_thread' = "exited"
    /\ UNCHANGED <<m_running, m_sql, m_gtid, m_current_gtid, m_tables, repl_log>>
    /\ UNCHANGED start_vars
    /\ UNCHANGED cfg_vars
    /\ UNCHANGED <<registry_vars, router_vars, mon_state, admin, request_vars, worker_vars,
                   journal_vars, script>>

\* process_events: while (m_running) is true; connect(), which returns at
\* once when there is a connection, and on success the call of fetch_event.
process_events_turn(connect_ok) ==
    /\ repl_thread = "running"
    /\ m_running
    /\ IF m_sql
       THEN /\ repl_thread' = "fetch"
            /\ UNCHANGED <<m_sql, repl_log>>
       ELSE /\ m_sql' = connect_ok
            /\ repl_thread' = IF connect_ok THEN "fetch" ELSE "running"
            /\ repl_log' = IF connect_ok
                           THEN [event |-> "connect",
                                 connect_state |-> ConnectState(m_gtid, m_current_gtid),
                                 session_gtid |-> FALSE,
                                 sleep |-> 0]
                           ELSE [repl_log EXCEPT !.event = "connect_failed",
                                                 !.sleep = RetrySleep]
    /\ UNCHANGED <<m_running, m_gtid, m_current_gtid, m_tables>>
    /\ UNCHANGED start_vars
    /\ UNCHANGED cfg_vars
    /\ UNCHANGED <<registry_vars, router_vars, mon_state, admin, request_vars, worker_vars,
                   journal_vars, script>>

\* What the source does while the thread waits in fetch_event: it sends an
\* event, or the connection breaks and fetch_event returns NULL.  An idle
\* source does neither, and fetch_event has no bound of its own.
FetchOutcomes == ReplicationEvents \cup {[event_type |-> "NULL"]}

\* process_events: fetch_event returns; process_one_event for an event,
\* m_sql.reset() for NULL; back to the test of while (m_running).
fetch_event_returns(event) ==
    /\ repl_thread = "fetch"
    /\ event.event_type = "WRITE_ROWS_EVENT_V1" /\ m_tables[event.table_id] # NoTable
           => m_tables[event.table_id] < MaxQueue
    /\ IF event.event_type = "NULL"
       THEN /\ m_sql' = FALSE
            /\ repl_thread' = "running"
            /\ repl_log' = [repl_log EXCEPT !.event = "lost", !.session_gtid = FALSE,
                                            !.sleep = 0]
            /\ UNCHANGED <<m_gtid, m_current_gtid, m_tables>>
       ELSE /\ m_current_gtid' = IF event.event_type = "GTID_EVENT"
                                 THEN to_gtid_string(event)
                                 ELSE m_current_gtid
            /\ m_gtid' = CommittedAfter(event.event_type, m_gtid, m_current_gtid)
            /\ m_tables' = TablesAfter(event, m_tables)
            /\ repl_thread' \in ThreadAfter(event, m_tables)
            /\ repl_log' = [repl_log EXCEPT
                                !.event = event.event_type,
                                !.sleep = 0,
                                !.session_gtid =
                                    CASE event.event_type = "GTID_EVENT" -> TRUE
                                      [] event.event_type = "XID_EVENT" -> FALSE
                                      [] OTHER -> @]
            /\ UNCHANGED m_sql
    /\ UNCHANGED m_running
    /\ UNCHANGED start_vars
    /\ UNCHANGED cfg_vars
    /\ UNCHANGED <<registry_vars, router_vars, mon_state, admin, request_vars, worker_vars,
                   journal_vars, script>>

\* Replicator::Imp::stop: m_thr.join() returns once the thread function has.
replicator_join ==
    /\ ~m_running
    /\ repl_thread = "exited"
    /\ repl_thread' = "joined"
    /\ UNCHANGED <<m_running, m_sql, m_gtid, m_current_gtid, m_tables, repl_log>>
    /\ UNCHANGED start_vars
    /\ UNCHANGED cfg_vars
    /\ UNCHANGED <<registry_vars, router_vars, mon_state, admin, request_vars, worker_vars,
                   journal_vars, script>>

(***************************************************************************)
(* Specifications                                                          *)
(*                                                                         *)
(* Spec         the monitor worker and the admin thread                    *)
(* SpecRouter   the router over a fixed set of backends, monitor stopped   *)
(* SpecService  the router, the monitor worker and an admin draining db1   *)
(***************************************************************************)
Weights == {0, 1, 2}

\* The router_options settings the router is configured with.
OptionSets == {{}, {"master"}, {"slave"}, {"synced"}, {"master", "slave"}}

\* The status words of the backends the router is started over.
RouterStatuses ==
    {{}, {SERVER_RUNNING}, {SERVER_RUNNING, SERVER_MASTER}, {SERVER_RUNNING, SERVER_SLAVE},
     {SERVER_RUNNING, SERVER_MASTER, SERVER_SLAVE}, {SERVER_RUNNING, SERVER_JOINED},
     {SERVER_RUNNING, SERVER_MASTER, SERVER_MAINT}}

\* The servers the admin puts into and takes out of maintenance.
AdminTargets == {ServerList[1]}

\* The `bit` arguments the admin passes to a running monitor.
MonitorBitArgs == {{SERVER_MAINT}, {SERVER_RUNNING}}

\* Everything but the worker's position in its tick and the previous status
\* words, which detect_handle_state_changes reads.
InitOutsideDetect ==
    /\ connections = [s \in Servers |-> 0]
    /\ n_connections = [s \in Servers |-> 0]
    /\ sess = << >>
    /\ ret = NoRet
    /\ mi = 1
    /\ pending_status = [s \in Servers |-> {}]
    /\ mon_err_count = [s \in Servers |-> 0]
    /\ status_request = NoRequests
    /\ check_status_flag = STATUS_FLAG_NOCHECK
    /\ m_ticks = 0
    /\ last_event = NoEvents
    /\ mon_log = MonLogEmpty
    /\ admin = AdminIdle
    /\ m_master = NoServer
    /\ m_journal_hash = NoHash
    /\ journal_synced = TRUE
    /\ tmp_file = NoFile
    /\ jstore = JournalIdle
    /\ crashes = 0
    /\ script = NoScript
    /\ m_running = TRUE
    /\ m_sql = FALSE
    /\ m_gtid = NoGtid
    /\ m_current_gtid = NoGtid
    /\ m_tables = NoTables
    /\ repl_thread = "running"
    /\ repl_log = ReplLogEmpty
    /\ m_checked = FALSE
    /\ m_lock = "free"
    /\ m_shutdown = FALSE
    /\ con = {}
    /\ start_log = StartLogEmpty
    /\ m_servers = ServerList
    /\ m_all_monitors_lock = "free"
    /\ calls = [t \in Threads |-> NoCall]
    /\ ns = NoNewSession

\* The state every specification starts from, but for the configuration.
\* The memory of a new process.
InitMemory ==
    /\ mpc = "sleep"
    /\ mon_prev_status = [s \in Servers |-> STATUS_UNSET]
    /\ InitOutsideDetect
    /\ disk_space_limits = << >>
    /\ disk_info = << >>

InitCommon ==
    /\ journal_file = NoFile
    /\ InitMemory

\* The monitor has been started over servers that are down; the service uses
\* the default router options.
Init ==
    /\ InitCommon
    /\ status = [s \in Servers |-> {}]
    /\ weight = [s \in Servers |-> 1]
    /\ active = [s \in Servers |-> TRUE]
    /\ inst = configureInstance({})
    /\ mon_state = "RUNNING"

Next ==
    \/ TickStart
    \/ DrainRequest
    \/ \E result \in ProbeResults, roles \in DiscoveredRoles, disk \in DiskChecks :
           Probe(result, roles, disk)
    \/ IncrementTicks
    \/ FlushServerStatus
    \/ DetectStateChanges
    \/ HangupFailedServers
    \/ StoreServerJournal
    \/ \E srv \in AdminTargets, op \in AdminOps, bit \in MonitorBitArgs :
           AdminStatusCall(srv, op, bit)
    \/ AdminStoreFlag
    \/ AdminReturn

Spec == Init /\ [][Next]_vars

\* No monitor runs; the backends, their weights and the router options are
\* any of the configurations above.
InitRouter ==
    /\ InitCommon
    /\ status \in [Servers -> RouterStatuses]
    /\ weight \in [Servers -> Weights]
    /\ active \in [Servers -> BOOLEAN]
    /\ \E opts \in OptionSets : inst = configureInstance(opts)
    /\ mon_state = "STOPPED"

NextRouter ==
    \/ \E connect_ok \in BOOLEAN : newSession(connect_ok)
    \/ \E sid \in SessIds, uninitialised \in BOOLEAN : routeQuery(sid, uninitialised)
    \/ \E sid \in SessIds : closeSession(sid)
    \/ \E sid \in SessIds : freeSession(sid)
    \/ RouterReturn

SpecRouter == InitRouter /\ [][NextRouter]_vars

\* The monitor runs over two running servers that a service with the default
\* router options (running) uses and that answer every probe; the admin drains
\* a server.
InitService ==
    /\ InitCommon
    /\ status = [s \in Servers |-> {SERVER_RUNNING}]
    /\ weight = [s \in Servers |-> 1]
    /\ active = [s \in Servers |-> TRUE]
    /\ inst = configureInstance({})
    /\ mon_state = "RUNNING"

NextService ==
    \/ TickStart
    \/ DrainRequest
    \/ \E disk \in DiskChecks : Probe("ok", {}, disk)
    \/ IncrementTicks
    \/ FlushServerStatus
    \/ DetectStateChanges
    \/ HangupFailedServers
    \/ StoreServerJournal
    \/ \E srv \in AdminTargets, op \in AdminOps :
           AdminStatusCall(srv, op, {SERVER_BEING_DRAINED})
    \/ AdminStoreFlag
    \/ AdminReturn
    \/ \E connect_ok \in BOOLEAN : newSession(connect_ok)
    \/ \E sid \in SessIds, uninitialised \in BOOLEAN : routeQuery(sid, uninitialised)
    \/ \E sid \in SessIds : closeSession(sid)
    \/ \E sid \in SessIds : freeSession(sid)
    \/ RouterReturn

SpecService == InitService /\ [][NextService]_vars

\* The monitor runs, stops and starts over servers that are probed, an admin
\* sets and clears the maintenance flag while the monitor is stopped, and the
\* process or the machine may stop at any point.
JournalProbeResults == {"ok"}
JournalRoles == {{SERVER_MASTER}}

InitJournal ==
    /\ InitCommon
    /\ status = [s \in Servers |-> {}]
    /\ weight = [s \in Servers |-> 1]
    /\ active = [s \in Servers |-> TRUE]
    /\ inst = configureInstance({})
    /\ mon_state = "RUNNING"

NextJournal ==
    \/ TickStart
    \/ \E result \in JournalProbeResults, roles \in JournalRoles, disk \in DiskChecks :
           Probe(result, roles, disk)
    \/ post_tick(ServerList[1])
    \/ IncrementTicks
    \/ FlushServerStatus
    \/ DetectStateChanges
    \/ HangupFailedServers
    \/ \E open_ok \in BOOLEAN : StoreOpenTmp(open_ok)
    \/ \E write_ok \in BOOLEAN : StoreWrite(write_ok)
    \/ \E rename_ok \in BOOLEAN : StoreRename(rename_ok)
    \/ MonitorStop
    \/ \E stale \in BOOLEAN : MonitorStart(stale)
    \/ \E op \in AdminOps :
           mon_state = "STOPPED" /\ AdminStatusCall(ServerList[1], op, {SERVER_MAINT})
    \/ AdminReturn
    \/ Writeback
    \/ ProcessCrash
    \/ SystemCrash

SpecJournal == InitJournal /\ [][NextJournal]_vars

\* The replicator alone: the source sends any event in any order and the
\* connection may be lost at any point.
InitReplicator ==
    /\ InitCommon
    /\ status = [s \in Servers |-> {}]
    /\ weight = [s \in Servers |-> 1]
    /\ active = [s \in Servers |-> TRUE]
    /\ inst = configureInstance({})
    /\ mon_state = "STOPPED"

NextReplicator ==
    \/ \E connect_ok \in BOOLEAN : ReplicatorConnect(connect_ok)
    \/ ReplicatorFetchFails
    \/ \E event \in ReplicationEvents : ReplicatorProcessEvent(event)
    \/ ReplicatorStop

SpecReplicator == InitReplicator /\ [][NextReplicator]_vars

\* The replicator with stop() and the thread taken step by step.  The
\* thread is scheduled and join returns when the thread has ended; when the
\* source sends something, or whether the connection breaks, is not up to
\* the program.
NextReplStop ==
    \/ \E connect_ok \in BOOLEAN : process_events_turn(connect_ok)
    \/ \E event \in FetchOutcomes : fetch_event_returns(event)
    \/ process_events_exit
    \/ replicator_stop
    \/ replicator_join

SpecReplStop ==
    /\ InitReplicator
    /\ [][NextReplStop]_vars
    /\ WF_vars(\E connect_ok \in BOOLEAN : process_events_turn(connect_ok))
    /\ WF_vars(process_events_exit)
    /\ WF_vars(replicator_join)

\* mon_get_event_type over every pair of status words: the worker is about to
\* run detect_handle_state_changes with db1's previous and current status
\* any two sets of the bits that mon_status_changed and mon_get_event_type
\* look at; db2 has not changed.
InitEvents ==
    /\ journal_file = NoFile
    /\ InitOutsideDetect
    /\ disk_space_limits = << >>
    /\ disk_info = << >>
    /\ mpc = "detect"
    /\ \E prev \in SUBSET all_server_bits :
           mon_prev_status = [s \in Servers |-> IF s = "db1" THEN prev ELSE {SERVER_RUNNING}]
    /\ \E present \in SUBSET all_server_bits :
           status = [s \in Servers |-> IF s = "db1" THEN present ELSE {SERVER_RUNNING}]
    /\ weight = [s \in Servers |-> 1]
    /\ active = [s \in Servers |-> TRUE]
    /\ inst = configureInstance({})
    /\ mon_state = "RUNNING"

SpecEvents == InitEvents /\ [][DetectStateChanges]_vars

\* The monitor worker with disk space limits: the limits for "*" and the
\* two paths in every iteration order, over servers that report any of the
\* paths with 40 or 50 percent of it used.
DiskLimits ==
    {dst \in UNION {[1..n -> [path : {"*", "/data", "/logs"}, max_percentage : {50, 100}]] :
                        n \in 1..3} :
        \A i, j \in DOMAIN dst : i # j => dst[i].path # dst[j].path}

DiskInfos ==
    UNION {[paths -> [total : {200}, available : {120, 100}]] :
               paths \in SUBSET {"/data", "/logs"}}

InitDisk ==
    /\ journal_file = NoFile
    /\ mpc = "sleep"
    /\ mon_prev_status = [s \in Servers |-> STATUS_UNSET]
    /\ InitOutsideDetect
    /\ disk_space_limits \in DiskLimits
    /\ disk_info \in DiskInfos
    /\ status = [s \in Servers |-> {}]
    /\ weight = [s \in Servers |-> 1]
    /\ active = [s \in Servers |-> TRUE]
    /\ inst = configureInstance({})
    /\ mon_state = "RUNNING"

NextDisk ==
    \/ TickStart
    \/ Probe("ok", {}, update_disk_space_status(disk_space_limits, disk_info))
    \/ IncrementTicks
    \/ FlushServerStatus
    \/ DetectStateChanges
    \/ HangupFailedServers
    \/ StoreServerJournal

SpecDisk == InitDisk /\ [][NextDisk]_vars

\* The monitor worker with an event hook configured for every event; the
\* hook subprocess may exit, fail or hang.
ScriptProbeResults == {"ok", "refused"}

NextScript ==
    \/ TickStart
    \/ \E result \in ScriptProbeResults, roles \in DiscoveredRoles, disk \in DiskChecks :
           Probe(result, roles, disk)
    \/ IncrementTicks
    \/ FlushServerStatus
    \/ DetectServer
    \/ \E outcome \in ScriptOutcomes : ScriptEnds(outcome)
    \/ LaunchScriptReturns
    \/ HangupFailedServers
    \/ StoreServerJournal

SpecScript == Init /\ [][NextScript]_vars

\* The monitor finds each of two running servers of different weight to be a
\* master or a slave, so that no server ever leaves the cluster and none is
\* hung up, while a service with router_options=master routes the packets of
\* its sessions.
FailoverRoles == {{SERVER_MASTER}, {SERVER_SLAVE}}

InitFailover ==
    /\ InitCommon
    /\ status = [s \in Servers |->
                     IF s = ServerList[1]
                     THEN {SERVER_RUNNING, SERVER_MASTER}
                     ELSE {SERVER_RUNNING, SERVER_SLAVE}]
    /\ weight = [s \in Servers |-> IF s = ServerList[1] THEN 1 ELSE 2]
    /\ active = [s \in Servers |-> TRUE]
    /\ inst = configureInstance({"master"})
    /\ mon_state = "RUNNING"

NextFailover ==
    \/ TickStart
    \/ \E roles \in FailoverRoles, disk \in DiskChecks : Probe("ok", roles, disk)
    \/ IncrementTicks
    \/ FlushServerStatus
    \/ DetectStateChanges
    \/ HangupFailedServers
    \/ StoreServerJournal
    \/ \E connect_ok \in BOOLEAN : newSession(connect_ok)
    \/ \E sid \in SessIds, uninitialised \in BOOLEAN : routeQuery(sid, uninitialised)
    \/ \E sid \in SessIds : closeSession(sid)
    \/ RouterReturn

SpecFailover == InitFailover /\ [][NextFailover]_vars

\* store_data's framing of a payload: length, payload, CRC32.
Frame(payload) == <<Number(Len(payload) + 1)>> \o payload \o <<Number(crc32(payload))>>

\* A journal this monitor wrote when db1 was the running master.
WrittenJournal ==
    store_data([s \in Servers |->
                    IF s = ServerList[1]
                    THEN {SERVER_RUNNING, SERVER_MASTER} ELSE {SERVER_RUNNING}],
               ServerList[1])

\* The files a monitor may find under the name monitor.dat when it starts:
\* none, one it wrote, one with an entry of a type it does not know or
\* without terminator after entries it knows, one of another schema version,
\* one whose CRC32 does not match, and one that is cut short.
JournalInputs ==
    {NoFile,
     WrittenJournal,
     Frame(<<Number(MMB_SCHEMA_VERSION),
             ServerValue(ServerList[1], set_byteN({SERVER_RUNNING, SERVER_MASTER})),
             [type |-> 3, name |-> "", num |-> 0]>>),
     Frame(<<Number(MMB_SCHEMA_VERSION),
             MasterValue(ServerList[1]),
             [type |-> SVT_SERVER, name |-> UnterminatedName, num |-> 0]>>),
     Frame(<<Number(MMB_SCHEMA_VERSION + 1),
             ServerValue(ServerList[1], set_byteN({SERVER_RUNNING, SERVER_MASTER}))>>),
     [WrittenJournal EXCEPT ![Len(WrittenJournal)].num = (@ + 1) % 65521],
     SubSeq(WrittenJournal, 1, Len(WrittenJournal) - 1)}

\* The roles the monitor module finds when it probes.
StartRoles == {{}, {SERVER_SLAVE}}

\* A stopped monitor over servers that are down finds any of the files above
\* and is started and stopped while its worker ticks.
InitStart ==
    /\ InitMemory
    /\ journal_file \in JournalInputs
    /\ status = [s \in Servers |-> {}]
    /\ weight = [s \in Servers |-> 1]
    /\ active = [s \in Servers |-> TRUE]
    /\ inst = configureInstance({})
    /\ mon_state = "STOPPED"

NextStart ==
    \/ \E age \in 0..MaxAge, permitted \in BOOLEAN : monitor_start(age, permitted)
    \/ pre_run
    \/ TickStart
    \/ \E roles \in StartRoles, disk \in DiskChecks : Probe("ok", roles, disk)
    \/ IncrementTicks
    \/ FlushServerStatus
    \/ DetectStateChanges
    \/ HangupFailedServers
    \/ StoreServerJournal
    \/ monitor_stop
    \/ WorkerExits
    \/ StopReturns

SpecStart == InitStart /\ [][NextStart]_vars

(***************************************************************************)
(* Properties of the router (SpecRouter)                                   *)
(***************************************************************************)
\* A step in which newSession returns / routeQuery returns.
newSessionStep == ret = NoRet /\ ret'.op = "newSession"

routeQueryStep == ret = NoRet /\ ret'.op = "routeQuery"

\* The backend newSession has bound the new session to.
BoundBackend == sess'[ret'.sid].backend

\* The active backends outside maintenance that are RUNNING and share a bit
\* with mask & value.
Candidates(bitmask, bitvalue) ==
    {b \in Servers :
        /\ active[b]
        /\ SERVER_MAINT \notin status[b]
        /\ SERVER_RUNNING \in status[b]
        /\ \E bit \in status[b] : bit \in bitmask /\ bit \in bitvalue}

\* The active, running masters outside maintenance, and the root master among
\* them: the one of the highest weight that comes first in the list.
Masters ==
    {b \in Servers :
        active[b] /\ {SERVER_RUNNING, SERVER_MASTER} \subseteq status[b]
                  /\ SERVER_MAINT \notin status[b]}

IndexOf(b) == CHOOSE i \in DOMAIN ServerList : ServerList[i] = b

IsRootMaster(b) ==
    /\ b \in Masters
    /\ \A m \in Masters :
           \/ weight[m] < weight[b]
           \/ weight[m] = weight[b] /\ IndexOf(b) <= IndexOf(m)

\* The candidates that remain once a slave-only filter has set the root
\* master aside.
Remaining(bitmask, bitvalue) ==
    IF (bitvalue \cap {SERVER_SLAVE, SERVER_MASTER}) = {SERVER_SLAVE}
    THEN {b \in Candidates(bitmask, bitvalue) : ~IsRootMaster(b)}
    ELSE Candidates(bitmask, bitvalue)

\* C1: for every backend the connections counter equals the number of
\* sessions that a successful newSession has bound to it and freeSession has
\* not yet freed, and it is never negative.
C1_ConnectionsCountSessions ==
    \A b \in Servers :
        /\ connections[b] = Cardinality({sid \in DOMAIN sess : sess[sid].backend = b})
        /\ connections[b] >= 0

\* Two sessions have been created on a backend and one of them has been freed.
C1_Witness ==
    \E b \in Servers :
        /\ n_connections[b] = 2
        /\ connections[b] = 1
        /\ Cardinality({sid \in DOMAIN sess : sess[sid].backend = b}) = 1

\* C2 (as stated): the backend newSession selects as a candidate is RUNNING
\* and has (flags & mask) == (mask & value).
C2_Original ==
    [][newSessionStep /\ ret'.result = "bound"
           /\ Remaining(inst.bitmask, inst.bitvalue) # {}
       => /\ SERVER_RUNNING \in status[BoundBackend]
          /\ (status[BoundBackend] \cap inst.bitmask) = (inst.bitmask \cap inst.bitvalue)]_vars

\* C2 (amended): a backend is eligible iff RUNNING is set and
\* (flags & mask & value) is non-zero.  newSession binds the session to an
\* eligible active backend outside maintenance whenever one remains, falls
\* back to the root master when none remains and fails when there is neither;
\* routeQuery forwards a packet of an open session only to an eligible
\* backend, and drops it only if the backend is not eligible or the filter
\* value is exactly MASTER and the backend is not the root master.
C2_Eligibility ==
    [][/\ newSessionStep =>
            LET remaining == Remaining(inst.bitmask, inst.bitvalue)
            IN  /\ ret'.result = "bound" /\ remaining # {} => BoundBackend \in remaining
                /\ ret'.result = "bound" /\ remaining = {} => IsRootMaster(BoundBackend)
                /\ ret'.result = "no_candidate" => remaining = {} /\ Masters = {}
       /\ routeQueryStep /\ ~sess[ret'.sid].rses_closed =>
            LET ses == sess[ret'.sid]
                eligible ==
                    /\ SERVER_RUNNING \in status[ses.backend]
                    /\ (status[ses.backend] \cap ses.bitmask \cap ses.bitvalue) # {}
            IN  /\ ret'.result = "forwarded" => eligible
                /\ ret'.result = "dropped" =>
                       \/ ~eligible
                       \/ /\ ses.bitvalue = {SERVER_MASTER}
                          /\ active[ses.backend]
                          /\ ~IsRootMaster(ses.backend)]_vars

\* With router_options=slave a session is bound to a relay master, whose
\* MASTER and SLAVE bits are both set, and a packet is forwarded to it.
C2_Witness ==
    /\ ret.op = "routeQuery"
    /\ ret.result = "forwarded"
    /\ inst.bitvalue = {SERVER_SLAVE}
    /\ ret.sid \in DOMAIN sess
    /\ {SERVER_MASTER, SERVER_SLAVE} \subseteq status[sess[ret.sid].backend]
    /\ sess[ret.sid].bitvalue = {SERVER_SLAVE}

\* C3: when candidates of non-zero weight remain (and the filter value is not
\* exactly MASTER), newSession binds the session to one of them whose
\* (connections + 1) * 1000 / weight is minimal and, among those of the
\* minimal ratio, whose lifetime session count is minimal, whatever the order
\* of the backends in the list.
C3_WeightedLeastConnections ==
    [][newSessionStep /\ ret'.result = "bound" /\ inst.bitvalue # {SERVER_MASTER} =>
           LET nonzero == {b \in Remaining(inst.bitmask, inst.bitvalue) : weight[b] # 0}
               ratio(b) == ((connections[b] + 1) * 1000) \div weight[b]
           IN  nonzero # {} =>
                   /\ BoundBackend \in nonzero
                   /\ \A c \in nonzero :
                          \/ ratio(BoundBackend) < ratio(c)
                          \/ /\ ratio(BoundBackend) = ratio(c)
                             /\ n_connections[BoundBackend] <= n_connections[c]]_vars

\* The second backend of the list is chosen over the first one: both are
\* candidates of the same weight and load, and the second has had fewer
\* sessions over time (the one session of the first backend had been freed,
\* which is why the new session has its slot).
C3_Witness ==
    /\ ret.op = "newSession"
    /\ ret.result = "bound"
    /\ ret.sid = 1
    /\ ret.sid \in DOMAIN sess
    /\ sess[ret.sid].backend = ServerList[2]
    /\ Remaining(inst.bitmask, inst.bitvalue) = Servers
    /\ inst.bitvalue # {SERVER_MASTER}
    /\ weight[ServerList[1]] = weight[ServerList[2]]
    /\ weight[ServerList[1]] # 0
    /\ connections[ServerList[1]] = 0
    /\ connections[ServerList[2]] = 1
    /\ n_connections[ServerList[1]] = 1
    /\ n_connections[ServerList[2]] = 1

\* C4: when the filter value is exactly MASTER, newSession binds the session
\* to the root master (the running master outside maintenance of the highest
\* weight) if there is one and the connection succeeds, never to another
\* backend, and fails if there is no root master.
C4_MasterOnly ==
    [][newSessionStep /\ inst.bitvalue = {SERVER_MASTER} =>
           /\ ret'.result = "bound" => IsRootMaster(BoundBackend)
           /\ Masters = {} => ret'.result = "no_candidate"
           /\ Masters # {} => ret'.result \in {"bound", "connect_failed"}]_vars

\* With router_options=master and two masters, the session is bound to the
\* second backend of the list, which has the higher weight.
C4_Witness ==
    /\ ret.op = "newSession"
    /\ ret.result = "bound"
    /\ inst.bitvalue = {SERVER_MASTER}
    /\ Masters = Servers
    /\ weight[ServerList[2]] > weight[ServerList[1]]
    /\ ret.sid \in DOMAIN sess
    /\ sess[ret.sid].backend = ServerList[2]

\* C5 (as stated): when newSession falls back to the root master, the
\* session's value holds MASTER and connection_is_valid accepts the session
\* while the flags of the backend are what they were at creation.
C5_FallbackIsValid ==
    [][newSessionStep /\ ret'.result = "bound"
           /\ SelectCandidate(inst.bitmask, inst.bitvalue, get_root_master) = NoServer
       => /\ SERVER_MASTER \in sess'[ret'.sid].bitvalue
          /\ connection_is_valid(sess'[ret'.sid])]_vars

(***************************************************************************)
(* Properties of the drain of a backend (SpecService)                      *)
(***************************************************************************)
\* C6 (as stated): once a BEING_DRAINED_ON request has been applied to a
\* backend, the packets of the sessions bound to it are still forwarded, and
\* newSession never binds a new session to a backend whose BEING_DRAINED flag
\* is set.
C6_DrainingNotSelected ==
    [][/\ routeQueryStep /\ ~sess[ret'.sid].rses_closed
              /\ status[sess[ret'.sid].backend] = {SERVER_RUNNING, SERVER_BEING_DRAINED}
          => ret'.result = "forwarded"
       /\ newSessionStep /\ ret'.result = "bound"
          => SERVER_BEING_DRAINED \notin status[BoundBackend]]_vars

(***************************************************************************)
(* Properties of the monitor worker (Spec)                                 *)
(***************************************************************************)
\* C7 (as stated): every server whose request slot is not NO_CHANGE when a
\* tick starts has had its request applied by the time that tick begins to
\* probe, whatever the admin thread was doing when the tick started.
C7_RequestAppliedInTick ==
    mpc = "probe" /\ mi = 1 => mon_log.requested \subseteq mon_log.applied

\* C8 (as stated): when m_ticks has been incremented for a tick, the pending
\* flags of that tick have been published: no state has the counter
\* incremented and the flush still to come with a pending status that differs
\* from the published one.
C8_PublishedBeforeTicks ==
    mpc = "flush" =>
        \A s \in Servers : SERVER_MAINT \notin status[s] => status[s] = pending_status[s]

C10_Original ==
    mpc = "hangup" =>
        mon_log.events = {s \in Servers : status[s] # mon_log.start_status[s]}

\* C10 (amended): the servers for which a tick computes an event are the
\* servers outside maintenance whose RUNNING, MASTER, SLAVE, JOINED and NDB
\* bits as published differ from those the tick began with, RUNNING being set
\* before or after.
C10_EventsForRoleChanges ==
    mpc = "hangup" =>
        mon_log.events =
            {s \in Servers :
                /\ SERVER_MAINT \notin status[s]
                /\ (mon_log.start_status[s] \cap all_server_bits) \ {SERVER_MAINT}
                       # (status[s] \cap all_server_bits)
                /\ SERVER_RUNNING \in (mon_log.start_status[s] \cup status[s])}

\* A tick has computed an event for one server and none for another whose
\* flags it has changed as well.
C10_Witness ==
    /\ mpc = "hangup"
    /\ mon_log.events # {}
    /\ \E s \in Servers \ mon_log.events : status[s] # mon_log.start_status[s]

(***************************************************************************)
(* Properties of the journal (SpecJournal)                                 *)
(***************************************************************************)
\* C11: at every instant, also after the process or the machine stopped at
\* any point of store_server_journal, the file named monitor.dat either does
\* not exist or is a complete journal: it reads in full, its CRC32 verifies
\* and its entries parse.
C11_FinalNameComplete ==
    journal_file = NoFile \/ JournalParses(journal_file)

\* The monitor states a journal of this model is written from.
JournalStatuses == SUBSET {SERVER_RUNNING, SERVER_MASTER, SERVER_MAINT}

\* C12: loading a journal that was written from monitor state S restores S,
\* whatever the servers held before the load: after the load every server has
\* exactly the flags it had in S and m_master is the master of S.
C12_LoadRestores ==
    [][(mon_state = "STOPPED" /\ mon_state' = "RUNNING") =>
           \A S \in [Servers -> JournalStatuses], master \in Servers \cup {NoServer} :
               journal_file' = store_data(S, master) =>
                   status' = S /\ m_master' = master]_vars

(***************************************************************************)
(* Properties of the replicator (SpecReplicator)                           *)
(***************************************************************************)
\* C13: the committed cursor m_gtid only changes when an XID event publishes
\* the in-flight id that a GTID event of the same connection set since the
\* last commit; an XID event without such a GTID event leaves it alone.
C13_CursorFromSessionGtid ==
    [][m_gtid' # m_gtid =>
           /\ repl_log'.event = "XID_EVENT"
           /\ repl_log.session_gtid
           /\ m_gtid' = m_current_gtid]_vars

\* C14: when the replicator has connected again, the committed cursor is all
\* that is left of the connection before: the in-flight id is empty and
\* m_tables has no entry, hence no queued row event.
C14_ReconnectCarriesCursorOnly ==
    [][~m_sql /\ m_sql' =>
           /\ repl_log'.connect_state = m_gtid'
           /\ m_current_gtid' = NoGtid
           /\ m_tables' = NoTables]_vars

\* C15: once an XID event has been handled, no entry of m_tables holds a row
\* event that is still queued.
C15_XidFlushesTables ==
    repl_log.event = "XID_EVENT" =>
        \A id \in TableIds : m_tables[id] \in {NoTable, NullTable, 0}

(***************************************************************************)
(* Properties of the event hook (SpecScript)                               *)
(***************************************************************************)
\* C16: the monitor tick never waits for the hook subprocess: while the
\* subprocess of a dispatched transition runs (hung, failing or not), the
\* worker is not held in launch_script but goes on to the force-disconnect,
\* the journal and the next tick.
C16_TickNeverWaitsForHook ==
    script.state = "running" => mpc # "script"

(***************************************************************************)
(* Properties of the admin requests (Spec)                                 *)
(***************************************************************************)
\* The step with which run_one_tick returns.
TickCompletes == mpc = "journal" /\ mpc' = "sleep"

\* C17, as claimed: once the admin has returned from writing MAINT_ON for a
\* server of a running monitor (and has not written to its slot since), the
\* next tick to complete, be it one that was already running, leaves the
\* server with SERVER_MAINT set.
C17_Original ==
    [][TickCompletes =>
           \A s \in mon_log.maint_due \cup mon_log.maint_late :
               SERVER_MAINT \in status'[s]]_vars

\* C17, amended: once the admin has returned from writing MAINT_ON for a
\* server of a running monitor (and has not written to its slot since), the
\* next tick that starts after the return leaves the server with SERVER_MAINT
\* set.
C17_NextStartedTick ==
    [][TickCompletes =>
           \A s \in mon_log.maint_due : SERVER_MAINT \in status'[s]]_vars

\* A tick that began after the admin returned from MAINT_ON for db1, found db1
\* out of maintenance and is about to return.
C17_Witness ==
    /\ mpc = "journal"
    /\ ServerList[1] \in mon_log.maint_due
    /\ SERVER_MAINT \notin mon_log.start_status[ServerList[1]]
    /\ SERVER_MAINT \in status[ServerList[1]]

\* The step in which an admin call exchanges the request slot of a server.
SlotWritten == admin.pc = "idle" /\ admin'.pc = "store_flag"

\* The step in which the drain loop exchanges the request slot of a server.
SlotDrained == mpc = "drain" /\ (mi' # mi \/ mpc' # "drain")

\* C18: an admin request written to a slot that still holds an unread request
\* replaces it and logs the warning, and the drain of a slot leaves the slot at
\* NO_CHANGE and applies the one transition of the request it held, the one
\* written last, to the server and nothing to the others.
C18_LastRequestWins ==
    [][/\ SlotWritten /\ status_request[admin'.srv] # NO_CHANGE =>
              /\ admin'.warned
              /\ status_request'[admin'.srv] = admin'.request
       /\ SlotDrained /\ status_request[ServerList[mi]] # NO_CHANGE =>
              LET s == ServerList[mi]
                  request == status_request[s]
              IN  /\ status_request'[s] = NO_CHANGE
                  /\ request = MAINT_ON => status'[s] = status[s] \cup {SERVER_MAINT}
                  /\ request = MAINT_OFF => status'[s] = status[s] \ {SERVER_MAINT}
                  /\ request = BEING_DRAINED_ON =>
                         status'[s] = status[s] \cup {SERVER_BEING_DRAINED}
                  /\ request = BEING_DRAINED_OFF =>
                         status'[s] = status[s] \ {SERVER_BEING_DRAINED}
                  /\ \A t \in Servers \ {s} : status'[t] = status[t]]_vars

\* The drain loop has applied to db1 a request that the admin, still in its
\* call, wrote over an unread one.
C18_Witness ==
    /\ admin.pc \in {"store_flag", "done"}
    /\ admin.warned
    /\ admin.srv = ServerList[1]
    /\ mpc = "probe"
    /\ mi = 1
    /\ ServerList[1] \in mon_log.applied
    /\ status_request[ServerList[1]] = NO_CHANGE
    /\ (SERVER_MAINT \in status[ServerList[1]]) = (admin.request = MAINT_ON)

\* C19: on a running monitor a call of set_server_status or clear_server_status
\* with a bit other than SERVER_MAINT and SERVER_BEING_DRAINED reports the error
\* ERR_CANNOT_MODIFY, writes nothing, and from its first step to its return
\* leaves the flags of the servers, the request slots and check_status_flag as
\* they are.
C19_OtherBitsRejected ==
    [][/\ admin.pc = "idle" /\ admin'.pc # "idle" /\ mon_state = "RUNNING"
          /\ (admin'.bit \ {SERVER_MAINT, SERVER_BEING_DRAINED}) # {} =>
              /\ admin'.error
              /\ ~admin'.written
              /\ admin'.pc = "done"
              /\ UNCHANGED <<status, status_request, check_status_flag>>
       /\ admin.error /\ admin' # admin =>
              /\ admin' = AdminIdle
              /\ UNCHANGED <<status, status_request, check_status_flag>>]_vars

\* The admin is about to return from a rejected call for db1 while db1 has a
\* request in its slot and the flag is set.
C19_Witness ==
    /\ mon_state = "RUNNING"
    /\ admin.pc = "done"
    /\ admin.error
    /\ admin.bit = {SERVER_RUNNING}
    /\ status_request[ServerList[1]] # NO_CHANGE
    /\ check_status_flag = STATUS_FLAG_CHECK

(***************************************************************************)
(* Properties of a master session over a changing cluster (SpecFailover)   *)
(***************************************************************************)
\* The session is one that connection_is_valid compares with the root master.
MasterSession(sid) ==
    /\ sid \in DOMAIN sess
    /\ sess[sid].bitvalue = {SERVER_MASTER}
    /\ active[sess[sid].backend]

\* The backend of a master session is not the root master.
LostMaster(sid) == MasterSession(sid) /\ sess[sid].backend # get_root_master

\* routeQuery forwards the packet of the session that arrives now.
Forwardable(sid) ==
    /\ sid \in DOMAIN sess
    /\ ~sess[sid].rses_closed
    /\ sess[sid].backend_dcb
    /\ connection_is_valid(sess[sid])

\* C20 as stated: once the backend of a master session is not the root master,
\* the packets of that session are dropped from then on, so that no step leads
\* from such a state to one in which a packet of the session is forwarded.
C20_Original ==
    [][\A sid \in SessIds :
           LostMaster(sid) /\ sid \in DOMAIN sess' => ~Forwardable(sid)']_vars

\* C20, amended: routeQuery forwards a packet of a master session only if the
\* backend is the root master at that moment, and once it has dropped a packet
\* of a session the session is closed, stays closed, and every later packet of
\* it is dropped.
C20_DroppedOnceDroppedEver ==
    [][\A sid \in DOMAIN sess :
           /\ routeQueryStep /\ ret'.sid = sid /\ MasterSession(sid)
                  /\ ret'.result = "forwarded" =>
                  sess[sid].backend = get_root_master
           /\ routeQueryStep /\ ret'.sid = sid /\ sess[sid].rses_closed =>
                  ret'.result = "dropped"
           /\ ret.op = "routeQuery" /\ ret.result = "dropped" /\ ret.sid = sid
                  /\ ret' = NoRet =>
                  sid \in DOMAIN sess' /\ sess'[sid].rses_closed
           /\ sess[sid].rses_closed /\ sid \in DOMAIN sess' =>
                  sess'[sid].rses_closed]_vars

\* A packet of a master session is dropped because db2, the heavier server,
\* has become a master beside the session's backend db1, which still is one.
C20_Witness ==
    /\ ret.op = "routeQuery"
    /\ ret.result = "dropped"
    /\ MasterSession(ret.sid)
    /\ ~sess[ret.sid].rses_closed
    /\ sess[ret.sid].backend = ServerList[1]
    /\ server_is_master(status[ServerList[1]])
    /\ get_root_master = ServerList[2]

(***************************************************************************)
(* Properties of the diagnostics and failures of the router                *)
(***************************************************************************)
\* C21: a routeQuery that drops a packet logs a text that names the reason:
\* the session is closed, the server is down, the server is in maintenance,
\* or, for a running server outside maintenance, that it no longer qualifies
\* as a target server.
C21_DiagnosticNamesReason ==
    [][routeQueryStep /\ ret'.result = "dropped" =>
           LET ses == sess[ret'.sid]
               st == status[ses.backend]
           IN  /\ ret'.msg \in {"Session is closed.", "Server is down.",
                                "Server is in maintenance.",
                                "Server no longer qualifies as a target server."}
               /\ ret'.msg = "Session is closed." => ses.rses_closed
               /\ ret'.msg = "Server is down." => server_is_down(st)
               /\ ret'.msg = "Server is in maintenance." => server_is_in_maint(st)
               /\ (~ses.rses_closed /\ ~server_is_down(st) /\ ~server_is_in_maint(st)) =>
                      ret'.msg = "Server no longer qualifies as a target server."]_vars

\* C22: a newSession that fails, for want of a candidate and of a root master
\* or because the backend connection cannot be opened, changes no backend's
\* connection counters, flags, weight or activity and binds no session, to
\* the candidate or to any other backend.
C22_FailedNewSessionChangesNothing ==
    [][newSessionStep /\ ret'.result \in {"no_candidate", "connect_failed"} =>
           /\ UNCHANGED <<status, weight, active, connections, n_connections>>
           /\ sess' = sess
           /\ ret'.sid = NoRet.sid
           /\ ret'.result = "no_candidate" =>
                  /\ get_root_master = NoServer
                  /\ SelectCandidate(inst.bitmask, inst.bitvalue, NoServer) = NoServer]_vars

\* The connect to the chosen backend has failed although a second backend
\* was eligible.
C22_Witness ==
    /\ ret.op = "newSession"
    /\ ret.result = "connect_failed"
    /\ \A b \in Servers : b \in Candidates(inst.bitmask, inst.bitvalue)
    /\ \A b \in Servers : connections[b] = 0

\* The positions in the server list of the candidates with the lowest
\* lifetime-session count.
LeastUsed(cands) ==
    {i \in DOMAIN ServerList :
        /\ ServerList[i] \in cands
        /\ \A b \in cands : n_connections[ServerList[i]] <= n_connections[b]}

\* C23: when every eligible candidate has weight 0 (and the role filter asks
\* for neither master nor slave, so that the root master plays no part),
\* newSession binds the candidate with the lowest lifetime-session count, the
\* earliest in list order among equals.
C23_ZeroWeightLeastUsedFirst ==
    [][LET cands == Candidates(inst.bitmask, inst.bitvalue)
       IN  /\ newSessionStep
           /\ ret'.result = "bound"
           /\ (inst.bitvalue \cap {SERVER_MASTER, SERVER_SLAVE}) = {}
           /\ cands # {}
           /\ \A b \in cands : weight[b] = 0
           => \E i \in LeastUsed(cands) :
                  /\ BoundBackend = ServerList[i]
                  /\ \A j \in LeastUsed(cands) : i <= j]_vars

(***************************************************************************)
(* Properties of monitor start and stop (SpecStart)                        *)
(***************************************************************************)
\* The step in which the worker runs pre_run, which loads the journal.
preRunStep == mon_state = "RUNNING" /\ mpc = "pre_run" /\ mpc' # "pre_run"

\* C24: when load_server_journal rejects the file (schema version, CRC32,
\* short read, an entry without terminator or of an unknown type), no flags of
\* any server and no master pointer have changed.
C24_RejectedJournalChangesNothing ==
    [][preRunStep /\ journal_file # NoFile /\ ~JournalParses(journal_file) =>
           UNCHANGED <<status, pending_status, mon_prev_status, m_master>>]_vars

\* The step in which MonitorWorker::start is run for a monitor_start call.
startStep == start_log' # start_log /\ start_log'.call = "start" /\ ~start_log'.loaded

\* C25: a start that finds the journal at least journal_max_age old removes it,
\* so that pre_run gives no server a flag and names no master; a younger
\* journal that the reader accepts is loaded by pre_run, giving every server
\* the flags stored for it and the stored master, and no probe of a tick runs
\* before pre_run has.
C25_StaleRemovedYoungLoadedFirst ==
    [][/\ startStep /\ journal_file # NoFile =>
              journal_file' = IF start_log'.age >= journal_max_age THEN NoFile
                              ELSE journal_file
       /\ preRunStep /\ journal_file = NoFile =>
              UNCHANGED <<status, pending_status, mon_prev_status, m_master>>
       /\ preRunStep /\ journal_file = WrittenJournal =>
              /\ \A s \in Servers :
                     IF s = ServerList[1]
                     THEN {SERVER_RUNNING, SERVER_MASTER} \subseteq status'[s]
                     ELSE SERVER_RUNNING \in status'[s]
              /\ m_master' = ServerList[1]
              /\ start_log.age < journal_max_age
       /\ mpc # "probe" /\ mpc' = "probe" => start_log.loaded]_vars

\* A journal younger than journal_max_age has been loaded, and the first tick
\* is at its probes.
C25_Witness ==
    /\ start_log.call = "start"
    /\ start_log.age < journal_max_age
    /\ start_log.loaded
    /\ mpc = "probe"
    /\ m_ticks = 0
    /\ m_master = ServerList[1]
    /\ SERVER_MASTER \in status[ServerList[1]]

\* C26: a start whose permission check fails returns false and leaves the
\* monitor STOPPED with no worker, and while the monitor is STOPPED no tick
\* runs: the worker is at rest and m_ticks does not change.
C26_FailedCheckStaysStopped ==
    [][/\ startStep /\ ~m_checked /\ ~start_log'.permitted =>
              /\ ~start_log'.started
              /\ mon_state' = "STOPPED"
              /\ ~m_checked'
              /\ UNCHANGED <<mpc, mi, m_ticks, status, pending_status, m_master>>
       /\ mon_state = "STOPPED" /\ mon_state' = "STOPPED" =>
              UNCHANGED <<mpc, mi, m_ticks, status, pending_status>>
       /\ mon_state = "STOPPED" => mpc = "sleep"]_vars

\* A start that found no journal younger than journal_max_age has failed at
\* the permission check: the monitor is STOPPED and has never ticked.
C26_Witness ==
    /\ start_log.call = "start"
    /\ ~start_log.permitted
    /\ ~start_log.started
    /\ start_log.age >= journal_max_age
    /\ mon_state = "STOPPED"
    /\ ~m_checked
    /\ journal_file = NoFile
    /\ m_ticks = 0

\* C27: monitor_start acts only on a STOPPED monitor and monitor_stop only on
\* a RUNNING one, each with m_lock free before it and the other shut out
\* while it holds the lock; when monitor_stop returns the worker has left its
\* loop, the state is STOPPED, no tick is running and every probe connection
\* is closed, and no tick runs until the next start.
C27_StartStopSerialized ==
    [][/\ mon_state = "STOPPED" /\ mon_state' = "RUNNING" =>
              m_lock = "free" /\ start_log'.call = "start"
       /\ m_lock = "free" /\ m_lock' = "stop" => mon_state = "RUNNING"
       /\ mon_state = "RUNNING" /\ mon_state' = "STOPPED" =>
              m_lock = "stop" /\ mpc = "sleep"
       /\ m_lock = "stop" /\ m_lock' = "free" =>
              /\ mon_state' = "STOPPED"
              /\ mpc' = "sleep"
              /\ con' = {}
       /\ mon_state = "STOPPED" /\ mon_state' = "STOPPED" => UNCHANGED <<mpc, m_ticks>>]_vars

\* monitor_stop has returned for a monitor whose worker had run a tick and
\* held connections to both servers.
C27_Witness ==
    /\ start_log.call = "stop"
    /\ m_lock = "free"
    /\ mon_state = "STOPPED"
    /\ m_ticks > 0
    /\ con = {}
    /\ \A s \in Servers : SERVER_RUNNING \in status[s]

(***************************************************************************)
(* Properties of the replicator's connection handling (SpecReplicator)     *)
(***************************************************************************)
\* a step of process_events that ends in a failed connect or in a fetch
\* that returned no event
replFailStep ==
    /\ repl_log' # repl_log
    /\ repl_log'.event \in {"connect_failed", "lost"}

\* C28: a failed connect or a fetch without an event releases the
\* connection and leaves the committed cursor m_gtid alone, the thread stays
\* in its loop with m_running set (a failed connect sleeps 5 seconds first)
\* and its next step without a connection is another connect; every connect
\* that succeeds has requested the stream from the committed cursor.
C28_FailureReleasesAndRetriesFromCursor ==
    [][/\ replFailStep =>
              /\ ~m_sql'
              /\ m_gtid' = m_gtid
              /\ repl_thread' = "running" /\ m_running'
              /\ repl_log'.event = "connect_failed" => repl_log'.sleep = 5
       /\ ~m_sql /\ repl_log' # repl_log =>
              repl_log'.event \in {"connect", "connect_failed"}
       /\ ~m_sql /\ m_sql' => repl_log'.connect_state = m_gtid]_vars

\* a connection made again after a commit while another transaction was in
\* flight
C28_Witness ==
    /\ repl_log.event = "connect"
    /\ m_sql
    /\ m_gtid # NoGtid
    /\ m_current_gtid # m_gtid
    /\ repl_log.connect_state = m_gtid

(***************************************************************************)
(* Properties of the replicator's stop (SpecReplStop)                      *)
(***************************************************************************)
\* C29: once stop() has cleared m_running, the thread ends and join
\* returns, also when the thread was inside fetch_event at that moment
\* (left aside: the process ending in the dereference of a missing table).
C29_StopReturns ==
    (~m_running /\ repl_thread = "fetch") ~> (repl_thread \in {"joined", "crashed"})

(***************************************************************************)
(* Properties of mon_get_event_type (SpecEvents)                           *)
(***************************************************************************)
\* the role that names an event: the first of MASTER, SLAVE, JOINED, NDB
RoleName(bits) ==
    CASE SERVER_MASTER \in bits -> "MASTER"
      [] SERVER_SLAVE \in bits -> "SLAVE"
      [] SERVER_JOINED \in bits -> "SYNCED"
      [] SERVER_NDB \in bits -> "NDB"
      [] OTHER -> "SERVER"

RoleBits(bits) == bits \cap {SERVER_MASTER, SERVER_SLAVE, SERVER_JOINED, SERVER_NDB}

\* the role bits of P are still there in C, or C has none; the same read
\* over the MASTER and SLAVE bits alone
UnchangedOrCleared(P, C) ==
    \/ RoleBits(C) \in {RoleBits(P), {}}
    \/ C \cap {SERVER_MASTER, SERVER_SLAVE} \in {P \cap {SERVER_MASTER, SERVER_SLAVE}, {}}

\* C30: when detect_handle_state_changes has found a transition of db1 from
\* the previous flags P to the current flags C, the event it got from
\* mon_get_event_type is the UP event of C's role if only C has RUNNING, the
\* DOWN event of P's role if only P has RUNNING, and with RUNNING in both the
\* LOST event of P's role if P had a role bit and the role bits are
\* unchanged or cleared, the NEW event of C's role if P had no role bit and
\* C has one.
C30_EventTypeByTable ==
    LET P == mon_prev_status["db1"]
        C == status["db1"]
        E == last_event["db1"]
    IN  mpc = "hangup" /\ "db1" \in mon_log.events =>
            /\ SERVER_RUNNING \notin P /\ SERVER_RUNNING \in C =>
                   E = RoleName(C) \o "_UP_EVENT"
            /\ SERVER_RUNNING \in P /\ SERVER_RUNNING \notin C =>
                   E = RoleName(P) \o "_DOWN_EVENT"
            /\ /\ SERVER_RUNNING \in P /\ SERVER_RUNNING \in C
               /\ RoleBits(P) # {}
               /\ UnchangedOrCleared(P, C)
               => E = "LOST_" \o RoleName(P) \o "_EVENT"
            /\ /\ SERVER_RUNNING \in P /\ SERVER_RUNNING \in C
               /\ RoleBits(P) = {}
               /\ RoleBits(C) # {}
               => E = "NEW_" \o RoleName(C) \o "_EVENT"

\* a master that lost its role while it stayed up
C30_Witness ==
    /\ mpc = "hangup"
    /\ "db1" \in mon_log.events
    /\ mon_prev_status["db1"] = {SERVER_RUNNING, SERVER_MASTER, SERVER_JOINED}
    /\ status["db1"] = {SERVER_RUNNING, SERVER_JOINED}
    /\ last_event["db1"] = "LOST_MASTER_EVENT"

\* C31: whenever mon_status_changed has reported a change for a server,
\* the event that mon_get_event_type returned for it is a defined one: the
\* previous and the current flags differ, one of them has RUNNING, and the
\* result is not UNDEFINED_EVENT, which is what each of the function's
\* assertions guards.
C31_ChangedGivesDefinedEvent ==
    mpc = "hangup" =>
        \A s \in mon_log.events :
            /\ last_event[s] # "UNDEFINED_EVENT"
            /\ (mon_prev_status[s] \cap all_server_bits) # (status[s] \cap all_server_bits)
            /\ SERVER_RUNNING \in (mon_prev_status[s] \cup status[s])

\* a slave that has become the master
C31_Witness ==
    /\ mpc = "hangup"
    /\ "db1" \in mon_log.events
    /\ mon_prev_status["db1"] = {SERVER_RUNNING, SERVER_SLAVE}
    /\ status["db1"] = {SERVER_RUNNING, SERVER_MASTER}
    /\ last_event["db1"] = "NEW_MASTER_EVENT"

(***************************************************************************)
(* Properties of the probe loop (Spec)                                     *)
(***************************************************************************)
\* the iteration of tick()'s loop that probes server s
probeStep(s) ==
    /\ mpc = "probe"
    /\ m_servers[mi] = s
    /\ ~server_is_in_maint(status[s])
    /\ (mpc' # "probe" \/ mi' # mi)

\* C32: the probe of a server that was running logs a connect error when it
\* fails for another reason than access-denied, a connect error is only
\* logged by such a failed probe of a server whose error count was 0, and
\* after a probe the error count of the server is 0 exactly when that probe
\* succeeded.
C32_ConnectErrorOnFirstFailure ==
    [][\A s \in Servers :
           probeStep(s) =>
               LET failed == SERVER_RUNNING \notin pending_status'[s]
                   denied == SERVER_AUTH_ERROR \in pending_status'[s]
                   logged == s \in mon_log'.connect_errors /\ s \notin mon_log.connect_errors
               IN  /\ failed /\ ~denied /\ SERVER_RUNNING \in status[s] => logged
                   /\ logged => failed /\ ~denied /\ mon_err_count[s] = 0
                   /\ mon_err_count'[s] = 0 <=> ~failed]_vars

(***************************************************************************)
(* Properties of the disk space check (SpecDisk)                           *)
(***************************************************************************)
\* the limits that apply to a path the server reports: the one listed for
\* it, or else the one listed for "*"
LimitsOf(path) ==
    LET own == {disk_space_limits[i].max_percentage :
                    i \in {k \in DOMAIN disk_space_limits : disk_space_limits[k].path = path}}
        star == {disk_space_limits[i].max_percentage :
                    i \in {k \in DOMAIN disk_space_limits : disk_space_limits[k].path = "*"}}
    IN  IF own # {} THEN own ELSE star

\* C33: after the disk check of a probe, DISK_SPACE_EXHAUSTED is in the
\* server's pending status if and only if some path the server reports,
\* listed itself or covered by "*", has a used percentage at or above its
\* limit.
C33_ExhaustedIffSomePathOverLimit ==
    [][\A s \in Servers :
           probeStep(s) /\ disk_space_limits # << >> =>
               (SERVER_DISK_SPACE_EXHAUSTED \in pending_status'[s]
                <=> \E path \in DOMAIN disk_info :
                        \E max \in LimitsOf(path) :
                            ((disk_info[path].total - disk_info[path].available) * 100)
                                \div disk_info[path].total >= max)]_vars

(***************************************************************************)
(* Properties of the journal hash (SpecJournal)                            *)
(***************************************************************************)
\* a step of store_server_journal
storeStep ==
    /\ mon_state = "RUNNING" /\ mpc = "journal" /\ crashes' = crashes
    /\ (mpc' # mpc \/ jstore' # jstore \/ tmp_file' # tmp_file)

\* C34: within one process, m_journal_hash changes only in the step that
\* has renamed the completely written temporary file to monitor.dat, and
\* becomes the hash of that file; a store whose data hashes to m_journal_hash
\* writes nothing and ends the tick; a store that ends without the rename
\* having worked leaves the hash alone and ends the tick; and whenever a
\* tick comes to store_server_journal with data that does not hash to
\* m_journal_hash, the write can begin.
C34_HashFollowsRename ==
    /\ [][/\ crashes' = crashes /\ m_journal_hash' # m_journal_hash =>
                 /\ storeStep /\ jstore.pc = "rename"
                 /\ tmp_file = jstore.data
                 /\ journal_file' = jstore.data
                 /\ m_journal_hash' = JournalHash(journal_file')
          /\ /\ storeStep /\ jstore.pc = "idle"
             /\ JournalHash(store_data(status, m_master)) = m_journal_hash
             => /\ UNCHANGED <<journal_file, tmp_file, m_journal_hash>>
                /\ mpc' = "sleep"
          /\ /\ storeStep /\ mpc' # "journal"
             /\ (jstore.pc # "rename" \/ journal_file' # tmp_file)
             =>
                 /\ m_journal_hash' = m_journal_hash
                 /\ mpc' = "sleep"]_vars
    /\ [](/\ mon_state = "RUNNING" /\ mpc = "journal" /\ jstore.pc = "idle"
          /\ JournalHash(store_data(status, m_master)) # m_journal_hash
          => ENABLED (StoreOpenTmp(TRUE) /\ jstore'.pc = "write"))

\* a second tick's write has failed after the first tick's journal was
\* stored: the hash is still that of the stored file
C34_Witness ==
    /\ crashes = 0
    /\ mpc = "sleep"
    /\ m_journal_hash # NoHash
    /\ m_journal_hash = JournalHash(journal_file)
    /\ tmp_file # NoFile
    /\ JournalHash(store_data(status, m_master)) # m_journal_hash

\* ---------------------------------------------------------------------------
\* Admin calls on the monitor list: start all, stop all, add or remove a
\* server, the server-in-use lookup and the listing.  Each call is a sequence
\* of steps, and a step that takes a lock waits until the lock is free.
\* ---------------------------------------------------------------------------

ListOps == {"start_all", "stop_all", "add_server", "remove_server", "in_use", "list"}

\* The calls a thread makes: only the main worker starts and stops monitors.
ThreadOps(t) == IF t = "main" THEN ListOps ELSE {"in_use", "list"}

\* ThisUnit::foreach_monitor takes the list lock, and the function it runs for
\* the monitor takes m_lock: monitor_server_in_use and monitor_json_data read
\* under it.
LookupSteps == <<"lock_list", "lock_mon", "read", "unlock_list">>

Mutant_BracketedSteps(change, old_state) == <<"state", "lock_mon", change>>

\* The static Monitor::add_server and Monitor::remove_server after the state
\* has been read: a running monitor is stopped before the list changes and
\* started after it, each of the three under m_lock.
BracketedSteps(change, old_state) ==
    IF old_state = "RUNNING"
    THEN <<"state", "lock_mon", "stop", "lock_mon", change, "lock_mon", "start">>
    ELSE <<"state", "lock_mon", change>>

Mutant_ProgramMonFirst(op, old_state) ==
    CASE op = "start_all" -> <<"lock_list", "lock_mon", "start", "unlock_list">>
      [] op = "stop_all" -> <<"lock_list", "lock_mon", "stop", "unlock_list">>
      [] op \in {"in_use", "list"} -> <<"lock_mon", "lock_list", "read", "unlock_list">>
      [] op = "add_server" -> LookupSteps \o BracketedSteps("push_back", old_state)
      [] op = "remove_server" -> BracketedSteps("erase", old_state)
      [] OTHER -> << >>

\* The steps of an admin call.
Program(op, old_state) ==
    CASE op = "start_all" -> <<"lock_list", "lock_mon", "start", "unlock_list">>
      [] op = "stop_all" -> <<"lock_list", "lock_mon", "stop", "unlock_list">>
      [] op \in {"in_use", "list"} -> LookupSteps
      [] op = "add_server" -> LookupSteps \o BracketedSteps("push_back", old_state)
      [] op = "remove_server" -> BracketedSteps("erase", old_state)
      [] OTHER -> << >>

\* The step thread t is at.
Instr(t) ==
    LET p == Program(calls[t].op, calls[t].old_state)
    IN  IF calls[t].op = "none" THEN "none"
        ELSE IF calls[t].pc > Len(p) THEN "return"
        ELSE p[calls[t].pc]

Advance(t) == [calls EXCEPT ![t].pc = @ + 1]

\* What no step of an admin call touches.
outside_calls ==
    <<registry_vars, router_vars, repl_vars, script, admin, request_vars,
      m_journal_hash, journal_synced, tmp_file, jstore, crashes,
      mi, m_ticks, last_event, mon_log, disk_space_limits, disk_info, ns>>

\* What only the start, the stop and the change of the list touch.
monitor_vars ==
    <<mon_state, mpc, pending_status, mon_prev_status, mon_err_count, m_master,
      journal_file, m_checked, m_shutdown, con, start_log, m_servers>>

\* A thread enters an admin call.  The first server of the list is never
\* removed, so that the list the worker walks is never empty.
call_begin(t, op, server) ==
    /\ calls[t] = NoCall
    /\ op \in ThreadOps(t)
    /\ op = "remove_server" => server # ServerList[1]
    /\ calls' = [calls EXCEPT ![t] = [NoCall EXCEPT !.op = op, !.server = server]]
    /\ UNCHANGED <<outside_calls, monitor_vars, m_lock, m_all_monitors_lock>>

\* The call returns.
call_return(t) ==
    /\ Instr(t) = "return"
    /\ calls' = [calls EXCEPT ![t] = NoCall]
    /\ UNCHANGED <<outside_calls, monitor_vars, m_lock, m_all_monitors_lock>>

\* std::lock_guard on m_all_monitors_lock.
lock_list(t) ==
    /\ Instr(t) = "lock_list"
    /\ m_all_monitors_lock = "free"
    /\ m_all_monitors_lock' = t
    /\ calls' = Advance(t)
    /\ UNCHANGED <<outside_calls, monitor_vars, m_lock>>

\* The end of foreach_monitor.  add_server returns false when the server is
\* monitored already.
unlock_list(t) ==
    /\ Instr(t) = "unlock_list"
    /\ m_all_monitors_lock = t
    /\ m_all_monitors_lock' = "free"
    /\ calls' = IF calls[t].op = "add_server" /\ calls[t].found
                THEN [calls EXCEPT ![t].pc =
                          Len(Program(calls[t].op, calls[t].old_state)) + 1]
                ELSE Advance(t)
    /\ UNCHANGED <<outside_calls, monitor_vars, m_lock>>

\* Guard guard(monitor->m_lock).
lock_mon(t) ==
    /\ Instr(t) = "lock_mon"
    /\ m_lock = "free"
    /\ m_lock' = t
    /\ calls' = Advance(t)
    /\ UNCHANGED <<outside_calls, monitor_vars, m_all_monitors_lock>>

\* The loop over m_servers under m_lock.
read_servers(t) ==
    /\ Instr(t) = "read"
    /\ m_lock = t
    /\ m_lock' = "free"
    /\ calls' = [calls EXCEPT ![t].pc = @ + 1,
                              ![t].found = calls[t].server \in MonitoredServers]
    /\ UNCHANGED <<outside_calls, monitor_vars, m_all_monitors_lock>>

\* old_state = mon->state().
read_state(t) ==
    /\ Instr(t) = "state"
    /\ calls' = [calls EXCEPT ![t].pc = @ + 1, ![t].old_state = mon_state]
    /\ UNCHANGED <<outside_calls, monitor_vars, m_lock, m_all_monitors_lock>>

\* monitor_stop on a running monitor: do_stop asks the worker to shut down
\* and waits in Worker::join, m_lock held.
do_stop(t) ==
    /\ Instr(t) = "stop"
    /\ m_lock = t
    /\ mon_state = "RUNNING"
    /\ ~m_shutdown
    /\ m_shutdown' = TRUE
    /\ start_log' = [start_log EXCEPT !.call = "stop"]
    /\ UNCHANGED <<outside_calls, m_lock, m_all_monitors_lock, calls>>
    /\ UNCHANGED <<mon_state, mpc, pending_status, mon_prev_status, mon_err_count,
                   m_master, journal_file, m_checked, con, m_servers>>

\* monitor_stop returns: Worker::join has returned and Monitor::stop has
\* closed the connections, or the monitor was not running.
stop_returns(t) ==
    /\ Instr(t) = "stop"
    /\ m_lock = t
    /\ mon_state = "STOPPED"
    /\ con' = IF m_shutdown THEN {} ELSE con
    /\ m_shutdown' = FALSE
    /\ m_lock' = "free"
    /\ calls' = Advance(t)
    /\ UNCHANGED <<outside_calls, m_all_monitors_lock>>
    /\ UNCHANGED <<mon_state, mpc, pending_status, mon_prev_status, mon_err_count,
                   m_master, journal_file, m_checked, start_log, m_servers>>

\* MonitorManager::monitor_start under m_lock: a stopped monitor is started.
start_monitor(t, age, permitted) ==
    /\ Instr(t) = "start"
    /\ m_lock = t
    /\ IF mon_state = "STOPPED"
       THEN MonitorWorkerStart(age, permitted)
       ELSE UNCHANGED <<journal_file, m_checked, m_master, mon_state, mpc, start_log>>
    /\ m_lock' = "free"
    /\ calls' = Advance(t)
    /\ UNCHANGED <<outside_calls, m_all_monitors_lock>>
    /\ UNCHANGED <<pending_status, mon_prev_status, mon_err_count, m_shutdown, con,
                   m_servers>>

\* The member Monitor::add_server: a new MXS_MONITORED_SERVER is appended to
\* m_servers under m_lock.
push_back(t) ==
    /\ Instr(t) = "push_back"
    /\ m_lock = t
    /\ LET server == calls[t].server
       IN  /\ m_servers' = Append(m_servers, server)
           /\ pending_status' = [pending_status EXCEPT ![server] = {}]
           /\ mon_prev_status' = [mon_prev_status EXCEPT ![server] = STATUS_UNSET]
           /\ mon_err_count' = [mon_err_count EXCEPT ![server] = 0]
    /\ m_lock' = "free"
    /\ calls' = Advance(t)
    /\ UNCHANGED <<outside_calls, m_all_monitors_lock>>
    /\ UNCHANGED <<mon_state, mpc, m_master, journal_file, m_checked, m_shutdown, con,
                   start_log>>

\* The member Monitor::remove_server: the server's entry is erased from
\* m_servers under m_lock and freed, its connection closed.
erase(t) ==
    /\ Instr(t) = "erase"
    /\ m_lock = t
    /\ LET server == calls[t].server
       IN  /\ m_servers' = SelectSeq(m_servers, LAMBDA s : s # server)
           /\ con' = con \ {server}
    /\ m_lock' = "free"
    /\ calls' = Advance(t)
    /\ UNCHANGED <<outside_calls, m_all_monitors_lock>>
    /\ UNCHANGED <<mon_state, mpc, pending_status, mon_prev_status, mon_err_count,
                   m_master, journal_file, m_checked, m_shutdown, start_log>>

\* A step of thread t inside its admin call.
call_progress(t) ==
    \/ lock_list(t)
    \/ lock_mon(t)
    \/ read_servers(t)
    \/ unlock_list(t)
    \/ read_state(t)
    \/ do_stop(t)
    \/ stop_returns(t)
    \/ \E permitted \in BOOLEAN : start_monitor(t, 0, permitted)
    \/ push_back(t)
    \/ erase(t)
    \/ call_return(t)

\* A step of an admin call of thread t.
call_step(t) ==
    \/ \E op \in ListOps, server \in Servers : call_begin(t, op, server)
    \/ call_progress(t)

\* A monitor over both servers that has not been started, admin calls from two
\* threads and the worker of the monitor.
InitMembers ==
    /\ InitMemory
    /\ journal_file = NoFile
    /\ status = [s \in Servers |-> {}]
    /\ weight = [s \in Servers |-> 1]
    /\ active = [s \in Servers |-> TRUE]
    /\ inst = configureInstance({})
    /\ mon_state = "STOPPED"

NextMembers ==
    \/ \E t \in Threads : call_step(t)
    \/ pre_run
    \/ TickStart
    \/ Probe("ok", {}, "not_due")
    \/ IncrementTicks
    \/ FlushServerStatus
    \/ DetectStateChanges
    \/ HangupFailedServers
    \/ StoreServerJournal
    \/ WorkerExits

SpecMembers == InitMembers /\ [][NextMembers]_vars

worker_step ==
    \/ pre_run
    \/ TickStart
    \/ Probe("ok", {}, "not_due")
    \/ IncrementTicks
    \/ FlushServerStatus
    \/ DetectStateChanges
    \/ HangupFailedServers
    \/ StoreServerJournal
    \/ WorkerExits

\* C36: no thread takes the list lock while it holds m_lock, and whenever a
\* thread is inside an admin call some call or the worker can take a step.
C36_ListLockBeforeMonitorLock ==
    /\ [][\A t \in Threads :
              (m_all_monitors_lock' = t /\ m_all_monitors_lock # t) => m_lock # t]_vars
    /\ []((\E t \in Threads : calls[t] # NoCall) =>
              ENABLED ((\E t \in Threads : call_progress(t)) \/ worker_step))

\* A lookup holds the list lock and waits for m_lock, which the add_server
\* call of the main worker holds to change the list.
C36_Witness ==
    /\ m_all_monitors_lock = "rest"
    /\ Instr("rest") = "lock_mon"
    /\ m_lock = "main"
    /\ Instr("main") = "push_back"

\* A step of process_one_event on an event of the given type.
processStep(type) ==
    /\ repl_thread = "running"
    /\ m_running /\ m_running'
    /\ m_sql /\ m_sql'
    /\ repl_log'.event = type

\* C37: an event other than XID leaves the committed cursor m_gtid as it was
\* and an event other than GTID leaves the in-flight id m_current_gtid as it
\* was; UPDATE_ROWS_V1, DELETE_ROWS_V1 and unrecognised events change neither.
C37_OtherEventsKeepTheCursor ==
    [][\A event \in ReplicationEvents :
           processStep(event.event_type) =>
               /\ event.event_type # "XID_EVENT" => m_gtid' = m_gtid
               /\ event.event_type # "GTID_EVENT" => m_current_gtid' = m_current_gtid
               /\ event.event_type \in {"UPDATE_ROWS_EVENT_V1", "DELETE_ROWS_EVENT_V1",
                                        "ROTATE_EVENT"}
                      => m_gtid' = m_gtid /\ m_current_gtid' = m_current_gtid]_vars

\* An UPDATE_ROWS_V1 event has been processed inside a transaction whose id
\* differs from the committed cursor.
C37_Witness ==
    /\ repl_log.event = "UPDATE_ROWS_EVENT_V1"
    /\ repl_thread = "running"
    /\ m_gtid # NoGtid
    /\ m_current_gtid # m_gtid

\* C39: process_one_event never calls through an entry of m_tables that holds
\* no Table: a WRITE_ROWS_V1 event for an id without a TABLE_MAP before it
\* inserts no empty entry and makes no call, and every entry a QUERY event
\* visits holds a Table that a TABLE_MAP event has opened.
C39_NoAbsentTableUsed ==
    [][\A event \in ReplicationEvents :
           processStep(event.event_type) =>
               /\ \A id \in TableIds : m_tables'[id] # NullTable
               /\ (event.event_type = "WRITE_ROWS_EVENT_V1" /\ event.table_id \in TableIds
                   /\ m_tables[event.table_id] = NoTable)
                      => m_tables' = m_tables
               /\ event.event_type = "QUERY_EVENT" =>
                      \A id \in TableIds : m_tables[id] # NullTable]_vars

\* ---------------------------------------------------------------------------
\* Drain requests on a running monitor whose probes may fail.
\* ---------------------------------------------------------------------------

\* The bit argument of the admin calls: the drain bit.
DrainBitArgs == {{SERVER_BEING_DRAINED}}

NextDrain ==
    \/ TickStart
    \/ DrainRequest
    \/ \E result \in ProbeResults, disk \in DiskChecks : Probe(result, {}, disk)
    \/ IncrementTicks
    \/ FlushServerStatus
    \/ DetectStateChanges
    \/ HangupFailedServers
    \/ StoreServerJournal
    \/ \E srv \in AdminTargets, op \in AdminOps, bit \in DrainBitArgs :
           AdminStatusCall(srv, op, bit)
    \/ AdminStoreFlag
    \/ AdminReturn

SpecDrain == Init /\ [][NextDrain]_vars

\* C38: on a running monitor the SERVER_BEING_DRAINED bit of a server's status
\* is removed only by the step of monitor_check_maintenance_requests that
\* applies a BEING_DRAINED_OFF request to that server: ticks and their probe
\* outcomes leave a set bit set.
C38_DrainingStaysUntilDrainOff ==
    [][\A s \in Servers :
           (SERVER_BEING_DRAINED \in status[s] /\ SERVER_BEING_DRAINED \notin status'[s]) =>
               /\ mpc = "drain"
               /\ m_servers[mi] = s
               /\ status_request[s] = BEING_DRAINED_OFF]_vars

\* ---------------------------------------------------------------------------
\* newSession step by step, while the monitor publishes status words: the
\* lookup of the root master, the iterations of the candidate loop and the
\* rest of the call are steps of their own.
\* ---------------------------------------------------------------------------

\* One iteration of the candidate loop of newSession on ref: the candidate
\* after it and whether the loop is left by break.
CandidateStep(ref, candidate, bitmask, bitvalue, master_host) ==
    IF ~active[ref] \/ server_is_in_maint(status[ref])
    THEN [candidate |-> candidate, break |-> FALSE]
    ELSE IF ~StatusMatches(status[ref], bitmask, bitvalue)
    THEN [candidate |-> candidate, break |-> FALSE]
    ELSE IF /\ master_host # NoServer
            /\ ref = master_host
            /\ (bitvalue \cap {SERVER_SLAVE, SERVER_MASTER}) = {SERVER_SLAVE}
    THEN [candidate |-> candidate, break |-> FALSE]
    ELSE IF /\ master_host # NoServer
            /\ ref = master_host
            /\ bitvalue = {SERVER_MASTER}
    THEN [candidate |-> master_host, break |-> TRUE]
    ELSE IF master_host = NoServer /\ bitvalue = {SERVER_MASTER}
    THEN [candidate |-> NoServer, break |-> TRUE]
    ELSE [candidate |-> BetterCandidate(candidate, ref), break |-> FALSE]

\* What the steps of newSession before its last leave alone.
outside_lookup ==
    <<registry_vars, router_vars, mon_state, worker_vars, journal_vars, repl_vars, script,
      request_vars, admin, start_vars, disk_space_limits, disk_info, m_servers,
      m_all_monitors_lock, calls>>

\* newSession up to master_host = get_root_master(inst->service->dbref).
newSession_lookup ==
    /\ ns.pc = "idle"
    /\ ret = NoRet
    /\ DOMAIN sess # SessIds
    /\ \A s \in Servers : n_connections[s] < MaxLifetime
    /\ ns' = [pc |-> "loop", i |-> 1, master_host |-> get_root_master,
              candidate |-> NoServer, roots |-> {get_root_master}]
    /\ UNCHANGED outside_lookup

\* One iteration of the loop over inst->service->dbref.
newSession_iterate ==
    /\ ns.pc = "loop"
    /\ LET after == CandidateStep(ServerList[ns.i], ns.candidate, inst.bitmask,
                                  inst.bitvalue, ns.master_host)
       IN  ns' = [ns EXCEPT !.candidate = after.candidate,
                            !.i = @ + 1,
                            !.pc = IF after.break \/ ns.i = Len(ServerList)
                                   THEN "connect" ELSE "loop"]
    /\ UNCHANGED outside_lookup

\* newSession after the loop: the fallback to master_host, dcb_connect and the
\* return.
newSession_connect(connect_ok) ==
    /\ ns.pc = "connect"
    /\ LET bitmask == inst.bitmask
           bitvalue == inst.bitvalue
           master_host == ns.master_host
           found == ns.candidate
           candidate == IF found # NoServer THEN found ELSE master_host
           ses_bitvalue ==
               IF found = NoServer /\ master_host # NoServer
               THEN FallbackBitvalue(bitvalue)
               ELSE bitvalue
           sid == FreeSlot
       IN  IF candidate = NoServer
           THEN /\ ret' = [NoRet EXCEPT !.op = "newSession", !.result = "no_candidate"]
                /\ UNCHANGED <<sess, connections, n_connections>>
           ELSE IF ~connect_ok
           THEN /\ ret' = [NoRet EXCEPT !.op = "newSession", !.result = "connect_failed"]
                /\ UNCHANGED <<sess, connections, n_connections>>
           ELSE /\ sess' = sess @@ (sid :>
                        [backend |-> candidate,
                         bitmask |-> bitmask,
                         bitvalue |-> ses_bitvalue,
                         rses_closed |-> FALSE,
                         backend_dcb |-> TRUE])
                /\ connections' = ConnectionsAfterNew(candidate)
                /\ n_connections' = [n_connections EXCEPT ![candidate] = @ + 1]
                /\ ret' = [NoRet EXCEPT !.op = "newSession", !.result = "bound", !.sid = sid]
    /\ ns' = NoNewSession
    /\ UNCHANGED <<status, weight, active, inst>>
    /\ UNCHANGED <<mon_state, worker_vars, journal_vars, repl_vars, script, request_vars, admin>>
    /\ UNCHANGED start_vars
    /\ UNCHANGED <<disk_space_limits, disk_info, m_servers, m_all_monitors_lock, calls>>

\* The second server has the higher weight; both servers run, the first as
\* master, and the router is configured with router_options=master.
InitSession ==
    /\ InitCommon
    /\ status = [s \in Servers |->
                     IF s = ServerList[1]
                     THEN {SERVER_RUNNING, SERVER_MASTER}
                     ELSE {SERVER_RUNNING, SERVER_SLAVE}]
    /\ weight = [s \in Servers |-> IF s = ServerList[1] THEN 1 ELSE 2]
    /\ active = [s \in Servers |-> TRUE]
    /\ inst = configureInstance({"master"})
    /\ mon_state = "RUNNING"

NextSession ==
    \/ TickStart
    \/ \E roles \in FailoverRoles, disk \in DiskChecks : Probe("ok", roles, disk)
    \/ IncrementTicks
    \/ FlushServerStatus
    \/ DetectStateChanges
    \/ HangupFailedServers
    \/ StoreServerJournal
    \/ newSession_lookup
    \/ newSession_iterate
    \/ \E connect_ok \in BOOLEAN : newSession_connect(connect_ok)
    \/ RouterReturn

SpecSession == InitSession /\ [][NextSession]_vars

\* C40: a session that newSession binds with the role filter value exactly
\* MASTER is bound to a server that was the root master at some instant of
\* the call, whatever the monitor has published since the call's lookup.
C40_MasterSessionOnSomeRootMaster ==
    [][(/\ ns.pc = "connect"
        /\ inst.bitvalue = {SERVER_MASTER}
        /\ ret'.op = "newSession"
        /\ ret'.result = "bound")
       => sess'[ret'.sid].backend \in ns.roots]_vars
====
